---------------------------- MODULE Spec2Model ----------------------------
(***************************************************************************)
(* Model of resto's modal ("vim") editing of request fields.               *)
(*                                                                         *)
(*   src/src/vim.rs   Vim, Mode, Transition, Vim::transition               *)
(*   src/src/app.rs   App: opening a field, handle_editing_mode_key,       *)
(*                    save_current_textarea_content, handle_paste,         *)
(*                    send_request, update                                 *)
(*   src/src/curl.rs  parse_curl, tokenize_curl_command                    *)
(*   src/src/request.rs, src/src/utils/format_key_values.rs                *)
(*                                                                         *)
(* The text buffer is tui_textarea::TextArea (imported at vim.rs:8).  Its  *)
(* methods are modelled operation by operation, under the names the crate  *)
(* gives them, as far as Vim::transition calls them.                       *)
(*                                                                         *)
(* Conventions.  A String is a sequence of one-character strings; "\n" is  *)
(* the newline character.  Rows and columns are 0-based, as in the code,   *)
(* so line `row` of a buffer is lines[row + 1].  Option::None is None.     *)
(***************************************************************************)
EXTENDS Integers, Sequences, FiniteSets, TLC

VARIABLES
    state,            \* App::state (AppState)
    input_mode,       \* App::input_mode (InputMode)
    current_request,  \* App::current_request (method, url, headers, queries, body)
    url_textarea,     \* App::url_textarea (TextArea)
    headers_textarea, \* App::headers_textarea (TextArea)
    body_textarea,    \* App::body_textarea (TextArea)
    queries_textarea, \* App::queries_textarea (TextArea)
    request_section_active_tab,  \* App::request_section_active_tab
    vim,              \* App::vim (Vim: mode, pending)
    clipboard,        \* text held by the OS clipboard behind Vim::clipboard
    loading,          \* App::loading
    error_message,    \* App::error_message (Option<String>)
    responses,        \* App::responses (Vec<HttpResponse>)
    selected_response,\* App::selected_response (Option<usize>)
    response_rx,      \* the results sent on response_tx and not yet received
    in_flight,        \* the requests of the spawned tasks that have not sent a result
    exited,           \* "no", or how run_app returned: "quit" or "error"
    last,             \* the last key handled: input, result, state before it
    prev,             \* the key handled before `last`, kept when it completed yy, dd or cc
    nkeys,            \* number of keys handled so far
    panicked,         \* the process died of a panic (an unwrap on an Err)
    typed,            \* the inputs handled since the field was opened, where they are recorded
    yanked,           \* the last yank of the session: the field it was made in and its text
    active_tab        \* App::active_tab, the tab of the main content: "Request", "History"

\* The text areas other than the body's, and the active tab of the request section.
fieldVars == <<url_textarea, headers_textarea, queries_textarea, request_section_active_tab>>

\* The tabs: of the main content and of the request section.
tabVars == <<active_tab, request_section_active_tab>>

\* What send_request and update work on.
netVars == <<loading, error_message, responses, selected_response, response_rx, in_flight>>

vars ==
    <<state, input_mode, current_request, body_textarea, vim, clipboard, last, prev, nkeys,
      panicked, typed, fieldVars, netVars, exited, yanked, active_tab>>

---------------------------------------------------------------------------
(* Bounds of the model *)

\* Keys explored per run: of all key events (Spec), of the keys of SeqCodes (SpecSeq).
MaxKeys == 3
MaxSeqKeys == 7
\* Longest line and largest number of lines a buffer may grow to.
MaxCols == 4
MaxLines == 3
\* Rows of the text area the terminal shows (Widget::render stores it in the viewport).
ViewHeight == 2

---------------------------------------------------------------------------
(* Generic helpers *)

None == <<>>

Min(a, b) == IF a < b THEN a ELSE b
Max(a, b) == IF a > b THEN a ELSE b

\* s[..n] and s[n..] of a String or Vec, n a 0-based offset.
Take(s, n) == SubSeq(s, 1, n)
Drop(s, n) == SubSeq(s, n + 1, Len(s))

\* (row, col) ordering, as (sr, so).cmp(&(er, eo)).
PosLess(a, b) == a[1] < b[1] \/ (a[1] = b[1] /\ a[2] < b[2])

\* [String]::join(sep)
RECURSIVE Join(_, _)
Join(ls, sep) ==
    IF Len(ls) = 0 THEN <<>>
    ELSE IF Len(ls) = 1 THEN ls[1]
    ELSE ls[1] \o sep \o Join(Tail(ls), sep)

\* str::split('\n'): the pieces between newlines, a trailing empty piece included.
RECURSIVE Split(_)
Split(s) ==
    IF \A i \in 1..Len(s) : s[i] # "\n" THEN <<s>>
    ELSE LET i == CHOOSE k \in 1..Len(s) : s[k] = "\n" /\ \A j \in 1..(k - 1) : s[j] # "\n"
         IN <<Take(s, i - 1)>> \o Split(Drop(s, i))

\* str::lines(): split on newlines, without a trailing empty piece.
Lines(s) ==
    LET p == Split(s)
    IN IF p[Len(p)] = <<>> THEN Take(p, Len(p) - 1) ELSE p

---------------------------------------------------------------------------
(* tui_textarea: word.rs and cursor.rs *)

\* CharKind::new
CharKind(c) ==
    IF c \in {" ", "\n", "\t"} THEN "Space"
    ELSE IF c \in {".", ",", ":", ";", "$", "/", "-", "'", "?", "!"} THEN "Punct"
    ELSE "Other"

\* The kind of the character at 0-based column col.
KindAt(line, col) == CharKind(line[col + 1])

\* find_word_start_forward(line, start_col)
find_word_start_forward(line, start_col) ==
    IF start_col >= Len(line) THEN None
    ELSE LET hits == {col \in (start_col + 1)..(Len(line) - 1) :
                          KindAt(line, col) # "Space" /\ KindAt(line, col - 1) # KindAt(line, col)}
         IN IF hits = {} THEN None
            ELSE <<CHOOSE col \in hits : \A o \in hits : col <= o>>

\* find_word_inclusive_end_forward(line, start_col)
find_word_inclusive_end_forward(line, start_col) ==
    IF start_col >= Len(line) THEN None
    ELSE LET hits == {col \in (start_col + 1)..(Len(line) - 1) :
                          KindAt(line, col - 1) # "Space" /\ KindAt(line, col) # KindAt(line, col - 1)}
         IN IF hits # {} THEN <<(CHOOSE col \in hits : \A o \in hits : col <= o) - 1>>
            ELSE IF KindAt(line, Len(line) - 1) # "Space" THEN <<Len(line) - 1>>
            ELSE None

\* find_word_start_backward(line, start_col)
find_word_start_backward(line, start_col) ==
    LET idx == Min(start_col, Len(line))
    IN IF idx = 0 THEN None
       ELSE LET hits == {i \in 1..(idx - 1) :
                             KindAt(line, idx - i) # "Space"
                             /\ KindAt(line, idx - 1 - i) # KindAt(line, idx - i)}
            IN IF hits # {} THEN <<start_col - (CHOOSE i \in hits : \A o \in hits : i <= o)>>
               ELSE IF KindAt(line, 0) # "Space" THEN <<0>>
               ELSE None

fit_col(col, line) == Min(col, Len(line))

\* Viewport::position restricted to rows: (row_top, row_bottom).
ViewportRows(top) == <<top, Max(top, top + ViewHeight - 1)>>

\* The first row after `row` on which a word ends (the loop of CursorMove::WordEnd).
RECURSIVE WordEndBelow(_, _)
WordEndBelow(lines, row) ==
    IF row = Len(lines) - 1 THEN <<row, Len(lines[row + 1])>>
    ELSE LET f == find_word_inclusive_end_forward(lines[row + 2], 0)
         IN IF f # None THEN <<row + 1, f[1]>> ELSE WordEndBelow(lines, row + 1)

\* CursorMove::next_cursor: the new cursor, or None when the cursor cannot move.
next_cursor(m, cursor, lines, top) ==
    LET row == cursor[1]
        col == cursor[2]
        line == lines[row + 1]
    IN CASE m = "Forward" ->
              IF col >= Len(line)
              THEN (IF row + 1 < Len(lines) THEN <<row + 1, 0>> ELSE None)
              ELSE <<row, col + 1>>
         [] m = "Back" ->
              IF col = 0
              THEN (IF row = 0 THEN None ELSE <<row - 1, Len(lines[row])>>)
              ELSE <<row, col - 1>>
         [] m = "Up" ->
              IF row = 0 THEN None ELSE <<row - 1, fit_col(col, lines[row])>>
         [] m = "Down" ->
              IF row + 1 >= Len(lines) THEN None ELSE <<row + 1, fit_col(col, lines[row + 2])>>
         [] m = "Head" -> <<row, 0>>
         [] m = "End" -> <<row, Len(line)>>
         [] m = "Top" -> <<0, fit_col(col, lines[1])>>
         [] m = "Bottom" -> <<Len(lines) - 1, fit_col(col, lines[Len(lines)])>>
         [] m = "WordEnd" ->
              LET f == find_word_inclusive_end_forward(line, col + 1)
              IN IF f # None THEN <<row, f[1]>> ELSE WordEndBelow(lines, row)
         [] m = "WordForward" ->
              LET f == find_word_start_forward(line, col)
              IN IF f # None THEN <<row, f[1]>>
                 ELSE IF row + 1 < Len(lines) THEN <<row + 1, 0>>
                 ELSE <<row, Len(line)>>
         [] m = "WordBack" ->
              LET f == find_word_start_backward(line, col)
              IN IF f # None THEN <<row, f[1]>>
                 ELSE IF row > 0 THEN <<row - 1, Len(lines[row])>>
                 ELSE <<row, 0>>
         [] m = "InViewport" ->
              LET vr == ViewportRows(top)
                  r == Min(Max(row, vr[1]), Min(vr[2], Len(lines) - 1))
              IN <<r, fit_col(col, lines[r + 1])>>

---------------------------------------------------------------------------
(* tui_textarea: textarea.rs, history.rs.  A TextArea is a record          *)
(*   lines            Vec<String>, never empty                             *)
(*   cursor           (row, col)                                           *)
(*   selection_start  Option<(row, col)>                                   *)
(*   yank             YankText: <<s>> is Piece(s), longer is Chunk         *)
(*   edits, index     History: each edit keeps the lines and the cursor    *)
(*                    before and after it, which is what Edit::undo and    *)
(*                    Edit::redo restore                                   *)
(*   top              Viewport: first row shown                            *)
(***************************************************************************)

\* TextArea::from(lines); TextArea::default() is TextArea::from([""]).
NewTextArea(ls) ==
    [lines |-> IF ls = <<>> THEN <<<<>>>> ELSE ls,
     cursor |-> <<0, 0>>,
     selection_start |-> None,
     yank |-> <<<<>>>>,
     edits |-> <<>>,
     index |-> 0,
     top |-> 0]

\* TextArea::yank_text: YankText's Display joins a chunk's lines with newlines.
yank_text(ta) == Join(ta.yank, <<"\n">>)

\* TextArea::push_history, History::push: before is the cursor the edit started at,
\* after the cursor now; edits past the index (undone ones) are dropped.
push_history(old, new, before) ==
    [new EXCEPT !.edits = Take(old.edits, old.index)
                          \o <<[undo_lines |-> old.lines, redo_lines |-> new.lines,
                                before |-> before, after |-> new.cursor]>>,
                !.index = old.index + 1]

start_selection(ta) == [ta EXCEPT !.selection_start = ta.cursor]
cancel_selection(ta) == [ta EXCEPT !.selection_start = None]

\* The body of `if let Some(cursor) = m.next_cursor(..)` in move_cursor_with_shift.
set_cursor(ta, c, shift) ==
    IF c = None THEN ta
    ELSE [(IF shift
           THEN (IF ta.selection_start = None THEN start_selection(ta) ELSE ta)
           ELSE cancel_selection(ta))
          EXCEPT !.cursor = c]

\* TextArea::move_cursor_with_shift
move_cursor_with_shift(ta, m, shift) ==
    set_cursor(ta, next_cursor(m, ta.cursor, ta.lines, ta.top), shift)

\* TextArea::move_cursor
move_cursor(ta, m) == move_cursor_with_shift(ta, m, ta.selection_start # None)

\* Viewport::scroll then CursorMove::InViewport (TextArea::scroll_with_shift);
\* rows saturate at 0 as the u16 does.
scroll(ta, rows) ==
    move_cursor_with_shift([ta EXCEPT !.top = Max(0, ta.top + rows)], "InViewport",
                           ta.selection_start # None)

\* The range take_selection_range returns: <<start, end>> with start < end, or None
\* for no selection or an empty one.  (It also clears selection_start: its callers
\* below do.)
selection_range(ta) ==
    IF ta.selection_start = None \/ ta.selection_start = ta.cursor THEN None
    ELSE IF PosLess(ta.selection_start, ta.cursor) THEN <<ta.selection_start, ta.cursor>>
    ELSE <<ta.cursor, ta.selection_start>>

\* The text between two positions, as a Vec of line pieces.
text_between(lines, s, e) ==
    IF s[1] = e[1] THEN <<SubSeq(lines[s[1] + 1], s[2] + 1, e[2])>>
    ELSE <<Drop(lines[s[1] + 1], s[2])>>
         \o SubSeq(lines, s[1] + 2, e[1])
         \o <<Take(lines[e[1] + 1], e[2])>>

\* The lines with the text between two positions removed.
lines_without(lines, s, e) ==
    Take(lines, s[1])
    \o <<Take(lines[s[1] + 1], s[2]) \o Drop(lines[e[1] + 1], e[2])>>
    \o Drop(lines, e[1] + 1)

\* TextArea::delete_range
delete_range(ta, s, e, should_yank) ==
    LET new == [ta EXCEPT !.lines = lines_without(ta.lines, s, e),
                          !.cursor = s,
                          !.yank = IF should_yank THEN text_between(ta.lines, s, e) ELSE @]
    IN push_history(ta, new, e)

\* TextArea::delete_selection
delete_selection(ta, should_yank) ==
    LET r == selection_range(ta)
        t == cancel_selection(ta)
    IN IF r = None THEN t ELSE delete_range(t, r[1], r[2], should_yank)

\* TextArea::copy
copy(ta) ==
    LET r == selection_range(ta)
        t == cancel_selection(ta)
    IN IF r = None THEN t ELSE [t EXCEPT !.yank = text_between(ta.lines, r[1], r[2])]

\* TextArea::cut
cut(ta) == delete_selection(ta, TRUE)

\* TextArea::insert_piece
insert_piece(ta, s) ==
    IF s = <<>> THEN ta
    ELSE LET row == ta.cursor[1]
             col == ta.cursor[2]
             line == ta.lines[row + 1]
             new == [ta EXCEPT !.lines[row + 1] = Take(line, col) \o s \o Drop(line, col),
                               !.cursor = <<row, col + Len(s)>>]
         IN push_history(ta, new, ta.cursor)

\* TextArea::insert_chunk (EditKind::InsertChunk)
insert_chunk(ta, chunk) ==
    LET row == ta.cursor[1]
        col == ta.cursor[2]
        line == ta.lines[row + 1]
        n == Len(chunk)
        new == [ta EXCEPT !.lines = Take(ta.lines, row)
                                    \o <<Take(line, col) \o chunk[1]>>
                                    \o SubSeq(chunk, 2, n - 1)
                                    \o <<chunk[n] \o Drop(line, col)>>
                                    \o Drop(ta.lines, row + 1),
                          !.cursor = <<row + n - 1, Len(chunk[n])>>]
    IN push_history(ta, new, ta.cursor)

\* The match on self.yank in TextArea::paste.
insert_yank(t) ==
    IF Len(t.yank) = 1 THEN insert_piece(t, t.yank[1]) ELSE insert_chunk(t, t.yank)

\* TextArea::paste
paste(ta) == insert_yank(delete_selection(ta, FALSE))

\* The lines TextArea::insert_str splits its text into: split('\n'), a '\r' at the
\* end of a line dropped.
StrLines(text) ==
    [i \in 1..Len(Split(text)) |->
        IF Split(text)[i] # <<>> /\ Split(text)[i][Len(Split(text)[i])] = "\r"
        THEN Take(Split(text)[i], Len(Split(text)[i]) - 1)
        ELSE Split(text)[i]]

\* The match on lines.len() in TextArea::insert_str.
insert_lines(t, lines) ==
    IF Len(lines) = 1 THEN insert_piece(t, lines[1]) ELSE insert_chunk(t, lines)

\* TextArea::insert_str
insert_str(ta, text) == insert_lines(delete_selection(ta, FALSE), StrLines(text))

\* EditKind::InsertNewline at the cursor (the selection is already gone).
split_line(t) ==
    LET row == t.cursor[1]
        col == t.cursor[2]
        line == t.lines[row + 1]
        new == [t EXCEPT !.lines = Take(t.lines, row) \o <<Take(line, col), Drop(line, col)>>
                                   \o Drop(t.lines, row + 1),
                         !.cursor = <<row + 1, 0>>]
    IN push_history(t, new, t.cursor)

\* TextArea::insert_newline
insert_newline(ta) == split_line(delete_selection(ta, FALSE))

\* EditKind::InsertChar at the cursor (the selection is already gone).
put_char(t, c) ==
    LET row == t.cursor[1]
        col == t.cursor[2]
        line == t.lines[row + 1]
        new == [t EXCEPT !.lines[row + 1] = Take(line, col) \o <<c>> \o Drop(line, col),
                         !.cursor = <<row, col + 1>>]
    IN push_history(t, new, t.cursor)

\* TextArea::insert_char
insert_char(ta, c) ==
    IF c = "\n" THEN insert_newline(ta) ELSE put_char(delete_selection(ta, FALSE), c)

\* TextArea::delete_newline (the selection is already gone where it is called)
delete_newline(ta) ==
    LET row == ta.cursor[1]
    IN IF row = 0 THEN ta
       ELSE LET prev_line == ta.lines[row]
                new == [ta EXCEPT !.lines = Take(ta.lines, row - 1)
                                            \o <<prev_line \o ta.lines[row + 1]>>
                                            \o Drop(ta.lines, row + 1),
                                  !.cursor = <<row - 1, Len(prev_line)>>]
            IN push_history(ta, new, <<row, 0>>)

\* TextArea::delete_char
delete_char(ta) ==
    IF selection_range(ta) # None THEN delete_selection(ta, FALSE)
    ELSE LET t == cancel_selection(ta)
             row == t.cursor[1]
             col == t.cursor[2]
             line == t.lines[row + 1]
         IN IF col = 0 THEN delete_newline(t)
            ELSE IF col > Len(line) THEN t
            ELSE push_history(t, [t EXCEPT !.lines[row + 1] = Take(line, col - 1) \o Drop(line, col),
                                           !.cursor = <<row, col - 1>>],
                              t.cursor)

\* TextArea::delete_next_char after its move Forward: delete_char unless the cursor
\* did not move.
delete_char_unless_at(before, moved) ==
    IF moved.cursor = before THEN moved ELSE delete_char(moved)

\* TextArea::delete_next_char
delete_next_char(ta) ==
    IF selection_range(ta) # None THEN delete_selection(ta, FALSE)
    ELSE delete_char_unless_at(ta.cursor,
                               move_cursor_with_shift(cancel_selection(ta), "Forward", FALSE))

\* TextArea::delete_piece(col, usize::MAX): the rest of the line from col, yanked.
delete_piece(ta, col) ==
    LET row == ta.cursor[1]
        line == ta.lines[row + 1]
        new == [ta EXCEPT !.lines[row + 1] = Take(line, col),
                          !.cursor = <<row, col>>,
                          !.yank = <<Drop(line, col)>>]
    IN push_history(ta, new, <<row, Len(line)>>)

\* TextArea::delete_line_by_end
delete_line_by_end(ta) ==
    IF selection_range(ta) # None THEN delete_selection(ta, FALSE)
    ELSE LET t == cancel_selection(ta)
         IN IF t.cursor[2] < Len(t.lines[t.cursor[1] + 1])
            THEN delete_piece(t, t.cursor[2])
            ELSE delete_next_char(t)

\* TextArea::undo (History::undo)
undo(ta) ==
    IF ta.index = 0 THEN ta
    ELSE LET e == ta.edits[ta.index]
         IN [ta EXCEPT !.lines = e.undo_lines, !.index = @ - 1,
                       !.selection_start = None, !.cursor = e.before]

\* TextArea::redo (History::redo)
redo(ta) ==
    IF ta.index = Len(ta.edits) THEN ta
    ELSE LET e == ta.edits[ta.index + 1]
         IN [ta EXCEPT !.lines = e.redo_lines, !.index = @ + 1,
                       !.selection_start = None, !.cursor = e.after]

\* next_scroll_top, as Widget::render applies it to the rows before every key is read.
render(ta) ==
    [ta EXCEPT !.top = IF ta.cursor[1] < @ THEN ta.cursor[1]
                       ELSE IF @ + ViewHeight <= ta.cursor[1] THEN ta.cursor[1] + 1 - ViewHeight
                       ELSE @]

---------------------------------------------------------------------------
(* tui_textarea: input.rs.  An Input is [key, ctrl]; Key::Char(c) is the   *)
(* one-character string c, the named keys are the strings of NamedKeys.    *)
(* The alt and shift flags are left out: no pattern of Vim::transition     *)
(* reads them and no key event of the model sets them.                     *)
(***************************************************************************)

NamedKeys == {"Null", "Esc", "Enter", "Backspace"}

Key(c) == [key |-> c, ctrl |-> FALSE]
Ctrl(c) == [key |-> c, ctrl |-> TRUE]

\* Input::default()
NullInput == Key("Null")

\* From<KeyEvent> for Input: a key event is [code, ctrl]; codes the crate has no Key
\* for (CapsLock here) become Key::Null.
KeyEventToInput(ev) ==
    [key |-> IF ev.code = "CapsLock" THEN "Null" ELSE ev.code, ctrl |-> ev.ctrl]

\* TextArea::input for the inputs of the model (the crate's default, Emacs-like
\* key mappings), as Insert mode forwards them.
ta_input(ta, input) ==
    CASE input.key = "Enter" -> insert_newline(ta)
      [] input.key \notin NamedKeys /\ ~input.ctrl -> insert_char(ta, input.key)
      [] input.key = "Backspace" /\ ~input.ctrl -> delete_char(ta)
      [] input = Ctrl("d") -> delete_next_char(ta)
      [] input = Ctrl("f") -> move_cursor_with_shift(ta, "Forward", FALSE)
      [] input = Ctrl("b") -> move_cursor_with_shift(ta, "Back", FALSE)
      [] input = Ctrl("e") -> move_cursor_with_shift(ta, "End", FALSE)
      [] input = Ctrl("u") -> undo(ta)
      [] input = Ctrl("r") -> redo(ta)
      [] input = Ctrl("y") -> paste(ta)
      [] OTHER -> ta

---------------------------------------------------------------------------
(* src/src/vim.rs *)

\* enum Mode
ModeNormal == [name |-> "Normal", op |-> ""]
ModeInsert == [name |-> "Insert", op |-> ""]
ModeVisual == [name |-> "Visual", op |-> ""]
Operator(c) == [name |-> "Operator", op |-> c]

\* enum Transition
Nop == [kind |-> "Nop", mode |-> ModeNormal, input |-> NullInput]
TransitionMode(m) == [kind |-> "Mode", mode |-> m, input |-> NullInput]
Pending(i) == [kind |-> "Pending", mode |-> ModeNormal, input |-> i]
Quit == [kind |-> "Quit", mode |-> ModeNormal, input |-> NullInput]
\* Not a Transition: the first match of Vim::transition ended without `return`.
FallThrough == [kind |-> "FallThrough", mode |-> ModeNormal, input |-> NullInput]

\* Vim::new
NewVim(mode) == [mode |-> mode, pending |-> NullInput]

\* Vim::with_pending
with_pending(self, pending) == [mode |-> self.mode, pending |-> pending]

\* What one call of Vim::transition leaves: its return value, the text area and the
\* clipboard text; wrote says whether it called Clipboard::set_text.
Out(result, ta, clip) ==
    [result |-> result, textarea |-> ta, clipboard |-> clip, wrote |-> FALSE]

\* Clipboard::set_text
set_text(clip, text) == text

\* Mutant: the `g` arm without its guard on the pending input.
PendingIsG_Unguarded(self) == TRUE

\* The guard of the `g` arm: the stored pending input is g without ctrl.
PendingIsG(self) == self.pending.key = "g" /\ ~self.pending.ctrl

\* Mutant: e without the extra step in Operator mode.
WordEndMotion_NoExtraStep(self, ta) == move_cursor(ta, "WordEnd")

\* The arm for e without ctrl: in Operator mode one step further.
WordEndMotion(self, ta) ==
    LET t == move_cursor(ta, "WordEnd")
    IN IF self.mode.name = "Operator" THEN move_cursor(t, "Forward") ELSE t

\* Mutant: v without start_selection.
EnterVisual_NoSelection(ta) == ta

\* The arm for v in Normal mode.
EnterVisual(ta) == start_selection(ta)

\* Mutant: y, d, c in Normal mode without start_selection.
EnterOperator_NoSelection(ta) == ta

\* The arm for y, d and c in Normal mode.
EnterOperator(ta) == start_selection(ta)

\* Mutant: Esc and v in Visual mode without cancel_selection.
LeaveVisual_NoCancel(ta) == ta

\* The arm for Esc and v in Visual mode.
LeaveVisual(ta) == cancel_selection(ta)

\* `if cursor == textarea.cursor() { textarea.move_cursor(CursorMove::End) }`
OrLineEnd(cursor, ta) == IF cursor = ta.cursor THEN move_cursor(ta, "End") ELSE ta

\* Move down, at the last line to the end of the line instead.
DownOrLineEnd(ta) == OrLineEnd(ta.cursor, move_cursor(ta, "Down"))

\* Mutant: yy, dd, cc selecting from the cursor instead of the line head.
LinewiseSelect_FromCursor(ta) == DownOrLineEnd(start_selection(ta))

\* Mutant: yy, dd, cc without the move to the line end on the last line.
LinewiseSelect_NoLastLine(ta) ==
    move_cursor(start_selection(move_cursor(ta, "Head")), "Down")

\* The arm for the operator's own letter: yy, dd, cc.
LinewiseSelect(ta) == DownOrLineEnd(start_selection(move_cursor(ta, "Head")))

\* `self.clipboard.borrow_mut().set_text(textarea.yank_text())`, then Mode(Normal).
YankToClipboard(ta, clip) ==
    [Out(TransitionMode(ModeNormal), ta, set_text(clip, yank_text(ta))) EXCEPT !.wrote = TRUE]

\* The arm for y in Visual mode.
VisualYank(ta, clip) == YankToClipboard(copy(move_cursor(ta, "Forward")), clip)

\* The arms for d and c in Visual mode.
VisualCut(ta, clip, mode) == Out(TransitionMode(mode), cut(move_cursor(ta, "Forward")), clip)

\* A mutant of Unmapped: an input without an arm ends the session.
Unmapped_Quits(input, ta, clip) == Out(Quit, ta, clip)

\* A mutant of Unmapped: an input without an arm is dropped.
Unmapped_Dropped(input, ta, clip) == Out(Nop, ta, clip)

\* The catch-all arm of the first match: the input is handed back as pending.
Unmapped(input, ta, clip) == Out(Pending(input), ta, clip)

\* The first match of Vim::transition in Normal, Visual and Operator mode.  The
\* patterns are tried in the source's order; they are written here with the
\* conditions that make them exclusive.
Dispatch(self, input, ta, clip) ==
    LET k == input.key
        ctrl == input.ctrl
        mode == self.mode
        Motion(t) == Out(FallThrough, t, clip)
        Return(m, t) == Out(TransitionMode(m), t, clip)
    IN CASE k = "h" -> Motion(move_cursor(ta, "Back"))
         [] k = "j" -> Motion(move_cursor(ta, "Down"))
         [] k = "k" -> Motion(move_cursor(ta, "Up"))
         [] k = "l" -> Motion(move_cursor(ta, "Forward"))
         [] k = "w" -> Motion(move_cursor(ta, "WordForward"))
         [] k = "e" /\ ~ctrl -> Motion(WordEndMotion(self, ta))
         [] k = "b" /\ ~ctrl -> Motion(move_cursor(ta, "WordBack"))
         [] k = "0" -> Motion(move_cursor(ta, "Head"))
         [] k = "$" -> Motion(move_cursor(ta, "End"))
         [] k = "D" -> Return(ModeNormal, delete_line_by_end(ta))
         [] k = "C" -> Return(ModeInsert, cancel_selection(delete_line_by_end(ta)))
         [] k = "p" -> Return(ModeNormal, paste(ta))
         [] k = "u" /\ ~ctrl -> Return(ModeNormal, undo(ta))
         [] k = "r" /\ ctrl -> Return(ModeNormal, redo(ta))
         [] k = "x" -> Return(ModeNormal, delete_next_char(ta))
         [] k = "i" -> Return(ModeInsert, cancel_selection(ta))
         [] k = "a" -> Return(ModeInsert, move_cursor(cancel_selection(ta), "Forward"))
         [] k = "A" -> Return(ModeInsert, move_cursor(cancel_selection(ta), "End"))
         [] k = "o" -> Return(ModeInsert, insert_newline(move_cursor(ta, "End")))
         [] k = "O" -> Return(ModeInsert,
                              move_cursor(insert_newline(move_cursor(ta, "Head")), "Up"))
         [] k = "I" -> Return(ModeInsert, move_cursor(cancel_selection(ta), "Head"))
         [] k = "e" /\ ctrl -> Motion(scroll(ta, 1))
         [] k = "y" /\ ctrl -> Motion(scroll(ta, -1))
         [] k = "d" /\ ctrl -> Motion(scroll(ta, ViewHeight \div 2))
         [] k = "u" /\ ctrl -> Motion(scroll(ta, -(ViewHeight \div 2)))
         [] k = "f" /\ ctrl -> Motion(scroll(ta, ViewHeight))
         [] k = "b" /\ ctrl -> Motion(scroll(ta, -ViewHeight))
         [] k = "v" /\ ~ctrl /\ mode = ModeNormal -> Return(ModeVisual, EnterVisual(ta))
         [] k = "V" /\ ~ctrl /\ mode = ModeNormal ->
              Return(ModeVisual,
                     move_cursor(start_selection(move_cursor(ta, "Head")), "End"))
         [] (k = "Esc" \/ (k = "v" /\ ~ctrl)) /\ mode = ModeVisual ->
              Return(ModeNormal, LeaveVisual(ta))
         [] k = "g" /\ ~ctrl /\ PendingIsG(self) -> Motion(move_cursor(ta, "Top"))
         [] k = "G" /\ ~ctrl -> Motion(move_cursor(ta, "Bottom"))
         [] k \notin NamedKeys /\ ~ctrl /\ mode = Operator(k) -> Motion(LinewiseSelect(ta))
         [] k \in {"y", "d", "c"} /\ ~ctrl /\ mode = ModeNormal ->
              Return(Operator(k), EnterOperator(ta))
         [] k = "y" /\ ~ctrl /\ mode = ModeVisual -> VisualYank(ta, clip)
         [] k = "d" /\ ~ctrl /\ mode = ModeVisual -> VisualCut(ta, clip, ModeNormal)
         [] k = "c" /\ ~ctrl /\ mode = ModeVisual -> VisualCut(ta, clip, ModeInsert)
         [] OTHER -> Unmapped(input, ta, clip)

\* Mutant: Operator('y') copying to the internal register only.
PendingOperator_NoClipboard(self, ta, clip) ==
    CASE self.mode = Operator("y") -> Out(TransitionMode(ModeNormal), copy(ta), clip)
      [] self.mode = Operator("d") -> Out(TransitionMode(ModeNormal), cut(ta), clip)
      [] self.mode = Operator("c") -> Out(TransitionMode(ModeInsert), cut(ta), clip)
      [] OTHER -> Out(Nop, ta, clip)

\* Mutant: Operator('d') copying instead of cutting.
PendingOperator_DeleteCopies(self, ta, clip) ==
    CASE self.mode = Operator("y") -> YankToClipboard(copy(ta), clip)
      [] self.mode = Operator("d") -> Out(TransitionMode(ModeNormal), copy(ta), clip)
      [] self.mode = Operator("c") -> Out(TransitionMode(ModeInsert), cut(ta), clip)
      [] OTHER -> Out(Nop, ta, clip)

\* Mutant: Operator('c') copying instead of cutting.
PendingOperator_ChangeCopies(self, ta, clip) ==
    CASE self.mode = Operator("y") -> YankToClipboard(copy(ta), clip)
      [] self.mode = Operator("d") -> Out(TransitionMode(ModeNormal), cut(ta), clip)
      [] self.mode = Operator("c") -> Out(TransitionMode(ModeInsert), copy(ta), clip)
      [] OTHER -> Out(Nop, ta, clip)

\* The second match of Vim::transition: "Handle the pending operator".
PendingOperator(self, ta, clip) ==
    CASE self.mode = Operator("y") -> YankToClipboard(copy(ta), clip)
      [] self.mode = Operator("d") -> Out(TransitionMode(ModeNormal), cut(ta), clip)
      [] self.mode = Operator("c") -> Out(TransitionMode(ModeInsert), cut(ta), clip)
      [] OTHER -> Out(Nop, ta, clip)

\* Mutant: no pending operator resolved after a motion.
AfterDispatch_NoResolution(self, d) ==
    IF d.result = FallThrough THEN Out(Nop, d.textarea, d.clipboard) ELSE d

\* What follows the first match: an arm that returned is the result, the others go
\* on to the pending operator.
AfterDispatch(self, d) ==
    IF d.result = FallThrough THEN PendingOperator(self, d.textarea, d.clipboard) ELSE d

\* Mutant: Insert mode without its exit keys.
InsertMode_NoExit(input, ta, clip) ==
    Out(TransitionMode(ModeInsert), ta_input(ta, input), clip)

\* Mutant: Insert mode reading its keys as Normal mode does.
InsertMode_AsNormal(input, ta, clip) ==
    IF input.key = "Esc" \/ input = Ctrl("c")
    THEN Out(TransitionMode(ModeNormal), ta, clip)
    ELSE AfterDispatch(NewVim(ModeNormal), Dispatch(NewVim(ModeNormal), input, ta, clip))

\* The Insert arm of Vim::transition.
InsertMode(input, ta, clip) ==
    IF input.key = "Esc" \/ input = Ctrl("c")
    THEN Out(TransitionMode(ModeNormal), ta, clip)
    ELSE Out(TransitionMode(ModeInsert), ta_input(ta, input), clip)

\* Mutant: Vim::transition without the check for Key::Null.
transition_NoNullCheck(self, input, ta, clip) ==
    IF self.mode = ModeInsert THEN InsertMode(input, ta, clip)
    ELSE AfterDispatch(self, Dispatch(self, input, ta, clip))

\* Vim::transition
transition(self, input, ta, clip) ==
    IF input.key = "Null" THEN Out(Nop, ta, clip)
    ELSE IF self.mode = ModeInsert THEN InsertMode(input, ta, clip)
    ELSE AfterDispatch(self, Dispatch(self, input, ta, clip))

---------------------------------------------------------------------------
(* Strings (std): a String is a sequence of one-character strings *)

\* char::is_whitespace for the characters of the model.
IsWhitespace(c) == c \in {" ", "\t", "\n", "\r"}

RECURSIVE TrimStart(_)
TrimStart(s) == IF s # <<>> /\ IsWhitespace(s[1]) THEN TrimStart(Tail(s)) ELSE s

RECURSIVE TrimEnd(_)
TrimEnd(s) == IF s # <<>> /\ IsWhitespace(s[Len(s)]) THEN TrimEnd(Take(s, Len(s) - 1)) ELSE s

\* str::trim
Trim(s) == TrimEnd(TrimStart(s))

\* str::starts_with
StartsWith(s, prefix) == Len(s) >= Len(prefix) /\ Take(s, Len(prefix)) = prefix

\* str::find(char): the 0-based offset of the first c as <<offset>>, or None.
Find(s, c) ==
    IF \A i \in 1..Len(s) : s[i] # c THEN None
    ELSE <<(CHOOSE i \in 1..Len(s) : s[i] = c /\ \A j \in 1..(i - 1) : s[j] # c) - 1>>

\* The two parts around the offset Find returned.
SplitAt(s, f) == IF f = None THEN None ELSE <<Take(s, f[1]), Drop(s, f[1] + 1)>>

\* str::split_once(char): <<before, after>> or None.
split_once(s, c) == SplitAt(s, Find(s, c))

\* str::split(char), a trailing empty piece included.
RECURSIVE SplitOn(_, _)
SplitOn(s, c) ==
    IF Find(s, c) = None THEN <<s>>
    ELSE <<split_once(s, c)[1]>> \o SplitOn(split_once(s, c)[2], c)

\* The letters, for str::to_uppercase.
LowerCase == <<"a", "b", "c", "d", "e", "f", "g", "h", "i", "j", "k", "l", "m", "n", "o",
               "p", "q", "r", "s", "t", "u", "v", "w", "x", "y", "z">>
UpperCase == <<"A", "B", "C", "D", "E", "F", "G", "H", "I", "J", "K", "L", "M", "N", "O",
               "P", "Q", "R", "S", "T", "U", "V", "W", "X", "Y", "Z">>

ToUpperChar(c) ==
    IF \E i \in 1..Len(LowerCase) : LowerCase[i] = c
    THEN UpperCase[CHOOSE i \in 1..Len(LowerCase) : LowerCase[i] = c]
    ELSE c

\* str::to_uppercase
to_uppercase(s) == [i \in 1..Len(s) |-> ToUpperChar(s[i])]

\* The characters of the model's strings in byte order, which is the order of
\* String::cmp.
Alphabet ==
    <<"\t", "\n", "\r", " ", "!", "\"", "$", "&", "'", ",", "-", ".", "/", "0", "1", ":", ";",
      "=", "?">> \o UpperCase \o <<"\\">> \o LowerCase \o <<"{", "}">>

Ord(c) == CHOOSE i \in 1..Len(Alphabet) : Alphabet[i] = c

\* a < b as String::cmp orders them.
RECURSIVE StrLess(_, _)
StrLess(a, b) ==
    IF b = <<>> THEN FALSE
    ELSE IF a = <<>> THEN TRUE
    ELSE IF a[1] = b[1] THEN StrLess(Tail(a), Tail(b))
    ELSE Ord(a[1]) < Ord(b[1])

\* HashMap::new and HashMap::insert: a map is a function from its keys.
EmptyMap == <<>>
MapInsert(m, k, v) == [x \in (DOMAIN m) \cup {k} |-> IF x = k THEN v ELSE m[x]]

\* Result: Ok(value) and Err(error).
Ok(v) == [ok |-> TRUE, value |-> v, error |-> "none"]
Err(e) == [ok |-> FALSE, value |-> <<>>, error |-> e]

---------------------------------------------------------------------------
(* src/src/utils/format_key_values.rs *)

\* The keys in ascending order (sort_by on the keys).
RECURSIVE SortedKeys(_)
SortedKeys(ks) ==
    IF ks = {} THEN <<>>
    ELSE <<CHOOSE k \in ks : \A o \in ks \ {k} : StrLess(k, o)>>
         \o SortedKeys(ks \ {CHOOSE k \in ks : \A o \in ks \ {k} : StrLess(k, o)})

\* format!("{key:<max_key_len$} : {value}")
FormatPair(key, value, max_key_len) ==
    key \o [i \in 1..(max_key_len - Len(key)) |-> " "] \o <<" ", ":", " ">> \o value

\* The formatted lines of the sorted pairs.
FormatPairs(map, sorted, max_key_len) ==
    [i \in 1..Len(sorted) |-> FormatPair(sorted[i], map[sorted[i]], max_key_len)]

\* format_key_values
format_key_values(map) ==
    IF DOMAIN map = {} THEN <<>>
    ELSE Join(FormatPairs(map, SortedKeys(DOMAIN map),
                          CHOOSE n \in {Len(k) : k \in DOMAIN map} :
                              \A k \in DOMAIN map : Len(k) <= n),
              <<"\n">>)

---------------------------------------------------------------------------
(* src/src/request.rs, src/src/app.rs: HttpMethod *)

\* enum HttpMethod, with the name FromStr matches and as_str returns.
MethodNames ==
    [Get |-> <<"G", "E", "T">>, Post |-> <<"P", "O", "S", "T">>, Put |-> <<"P", "U", "T">>,
     Patch |-> <<"P", "A", "T", "C", "H">>, Delete |-> <<"D", "E", "L", "E", "T", "E">>,
     Head |-> <<"H", "E", "A", "D">>, Options |-> <<"O", "P", "T", "I", "O", "N", "S">>]

HttpMethods == DOMAIN MethodNames

\* HttpMethod::from_str: Ok(method) or Err.
MethodFromStr(str) ==
    IF \E m \in HttpMethods : MethodNames[m] = to_uppercase(str)
    THEN Ok(CHOOSE m \in HttpMethods : MethodNames[m] = to_uppercase(str))
    ELSE Err("Unknown HTTP method")

\* HttpMethod::next and HttpMethod::previous
MethodCycle == <<"Get", "Post", "Put", "Patch", "Delete", "Head", "Options">>
MethodIndex(m) == CHOOSE i \in 1..Len(MethodCycle) : MethodCycle[i] = m
MethodNext(m) == MethodCycle[(MethodIndex(m) % Len(MethodCycle)) + 1]
MethodPrevious(m) == MethodCycle[((MethodIndex(m) + Len(MethodCycle) - 2) % Len(MethodCycle)) + 1]

\* HttpRequest::new.  The id and created_at are left out: nothing modelled reads them.
NewRequest ==
    [method |-> "Get", url |-> <<>>, headers |-> EmptyMap, queries |-> EmptyMap, body |-> <<>>]

\* The JSON texts of the model and what serde_json::to_string_pretty makes of the
\* value serde_json::from_str reads from them; every other text is not JSON.
JsonPretty ==
    [t \in {<<"1">>, <<"{", "}">>, <<"{", " ", "}">>, <<" ", "1">>} |->
        IF t \in {<<"1">>, <<" ", "1">>} THEN <<"1">> ELSE <<"{", "}">>]

\* HttpRequest::set_body: Ok(request) or the error of serde_json::from_str.
set_body(request, body) ==
    IF body \in DOMAIN JsonPretty
    THEN Ok([request EXCEPT !.body = JsonPretty[body]])
    ELSE Err("serde_json")

\* HttpRequest::formatted_headers and HttpRequest::formatted_queries
formatted_headers(request) == format_key_values(request.headers)
formatted_queries(request) == format_key_values(request.queries)

\* The builders curl.rs calls on HttpRequest.
with_method(request, method) == [request EXCEPT !.method = method]
with_header(request, key, value) == [request EXCEPT !.headers = MapInsert(@, key, value)]
with_query(request, key, value) == [request EXCEPT !.queries = MapInsert(@, key, value)]
with_url(request, url) == [request EXCEPT !.url = url]

---------------------------------------------------------------------------
(* src/src/curl.rs *)

\* The locals of tokenize_curl_command before its loop.
TokenizerStart ==
    [tokens |-> <<>>, current_token |-> <<>>, in_quotes |-> FALSE, quote_char |-> "\"",
     escape_next |-> FALSE]

\* current_token.push(ch)
PushChar(st, ch) == [st EXCEPT !.current_token = Append(@, ch)]

\* One round of the loop of tokenize_curl_command.
TokenizerStep(st, ch) ==
    IF st.escape_next THEN [PushChar(st, ch) EXCEPT !.escape_next = FALSE]
    ELSE CASE ch = "\\" -> [st EXCEPT !.escape_next = TRUE]
           [] ch \in {"\"", "'"} ->
                IF ~st.in_quotes THEN [st EXCEPT !.in_quotes = TRUE, !.quote_char = ch]
                ELSE IF ch = st.quote_char THEN [st EXCEPT !.in_quotes = FALSE]
                ELSE PushChar(st, ch)
           [] ch \in {" ", "\t", "\n", "\r"} ->
                IF st.in_quotes THEN PushChar(st, ch)
                ELSE IF st.current_token # <<>>
                THEN [st EXCEPT !.tokens = Append(@, st.current_token), !.current_token = <<>>]
                ELSE st
           [] OTHER -> PushChar(st, ch)

\* The loop of tokenize_curl_command over the characters of input.
RECURSIVE TokenizerLoop(_, _)
TokenizerLoop(st, input) ==
    IF input = <<>> THEN st ELSE TokenizerLoop(TokenizerStep(st, input[1]), Tail(input))

\* What tokenize_curl_command returns after its loop.
TokenizerEnd(st) ==
    IF st.in_quotes THEN Err("Unclosed quotes in curl command")
    ELSE Ok(IF st.current_token # <<>> THEN Append(st.tokens, st.current_token)
            ELSE st.tokens)

\* tokenize_curl_command
tokenize_curl_command(input) == TokenizerEnd(TokenizerLoop(TokenizerStart, input))

\* The flags of parse_curl's match.
MethodFlags == {<<"-", "X">>, <<"-", "-", "r", "e", "q", "u", "e", "s", "t">>}
HeaderFlags == {<<"-", "H">>, <<"-", "-", "h", "e", "a", "d", "e", "r">>}
DataFlags == {<<"-", "d">>, <<"-", "-", "d", "a", "t", "a">>, <<"-", "-", "d", "a", "t", "a", "-", "r", "a", "w">>, <<"-", "-", "d", "a", "t", "a", "-", "b", "i", "n", "a", "r", "y">>}
SkippedFlags ==
    {<<"-", "-", "c", "o", "m", "p", "r", "e", "s", "s", "e", "d">>, <<"-", "L">>, <<"-", "-", "l", "o", "c", "a", "t", "i", "o", "n">>, <<"-", "k">>, <<"-", "-", "i", "n", "s", "e", "c", "u", "r", "e">>, <<"-", "s">>, <<"-", "-", "s", "i", "l", "e", "n", "t">>,
     <<"-", "v">>, <<"-", "-", "v", "e", "r", "b", "o", "s", "e">>}

\* The -X arm once its argument is read.
MethodArm(request, method) ==
    IF method.ok THEN Ok(with_method(request, method.value)) ELSE Err("InvalidMethod")

\* Mutant: a header without a colon let through.
HeaderArm_NoColonOk(request, kv) ==
    IF kv = None THEN Ok(request)
    ELSE Ok(with_header(request, Trim(kv[1]), Trim(kv[2])))

\* The -H arm once its argument is read.
HeaderArm(request, kv) ==
    IF kv = None THEN Err("InvalidHeader")
    ELSE Ok(with_header(request, Trim(kv[1]), Trim(kv[2])))

\* The data arms once set_body is through: a GET becomes a POST.
DataArm(r) ==
    IF ~r.ok THEN r
    ELSE IF r.value.method = "Get" THEN Ok(with_method(r.value, "Post"))
    ELSE r

\* One pair of the query string.
QueryPair(request, pair, kv) ==
    IF kv # None THEN with_query(request, kv[1], kv[2])
    ELSE IF pair # <<>> THEN with_query(request, pair, <<>>)
    ELSE request

\* The loop over query_str.split('&').
RECURSIVE QueryPairs(_, _)
QueryPairs(request, pairs) ==
    IF pairs = <<>> THEN request
    ELSE QueryPairs(QueryPair(request, pairs[1], split_once(pairs[1], "=")), Tail(pairs))

\* The arm of a token that starts with "http".
UrlArm(request, url, parts) ==
    IF parts = None THEN with_url(request, url)
    ELSE with_url(QueryPairs(request, SplitOn(parts[2], "&")), parts[1])

\* One round of the loop of parse_curl at tokens[i]: the request and the next i, or
\* the error it returns with.
ParseToken(request, tokens, i) ==
    CASE tokens[i + 1] \in MethodFlags \cup HeaderFlags \cup DataFlags /\ i + 1 >= Len(tokens) ->
            [r |-> Err("InvalidFormat"), i |-> i]
      [] tokens[i + 1] \in MethodFlags /\ i + 1 < Len(tokens) ->
            [r |-> MethodArm(request, MethodFromStr(tokens[i + 2])), i |-> i + 2]
      [] tokens[i + 1] \in HeaderFlags /\ i + 1 < Len(tokens) ->
            [r |-> HeaderArm(request, split_once(tokens[i + 2], ":")), i |-> i + 2]
      [] tokens[i + 1] \in DataFlags /\ i + 1 < Len(tokens) ->
            [r |-> DataArm(set_body(request, tokens[i + 2])), i |-> i + 2]
      [] tokens[i + 1] \in SkippedFlags -> [r |-> Ok(request), i |-> i + 1]
      [] OTHER ->
            [r |-> Ok(IF StartsWith(tokens[i + 1], <<"h", "t", "t", "p">>)
                      THEN UrlArm(request, tokens[i + 1], split_once(tokens[i + 1], "?"))
                      ELSE request),
             i |-> i + 1]

\* The loop of parse_curl from tokens[i] on, and its end.
RECURSIVE ParseLoop(_, _, _)

\* What follows one round: the error, or the next round.
ParseRest(step, tokens) ==
    IF step.r.ok THEN ParseLoop(step.r.value, tokens, step.i) ELSE step.r

ParseLoop(request, tokens, i) ==
    IF i >= Len(tokens)
    THEN (IF request.url = <<>> THEN Err("MissingUrl") ELSE Ok(request))
    ELSE ParseRest(ParseToken(request, tokens, i), tokens)

\* parse_curl after the tokenizer.
ParseTokens(tokens) == IF tokens.ok THEN ParseLoop(NewRequest, tokens.value, 0) ELSE tokens

\* input.strip_prefix("curl ") and the trim that follows.
StripCurl(input) == IF StartsWith(input, <<"c", "u", "r", "l", " ">>) THEN Trim(Drop(input, 5)) ELSE input

\* parse_curl
parse_curl(input) == ParseTokens(tokenize_curl_command(StripCurl(Trim(input))))

---------------------------------------------------------------------------
(* src/src/app.rs *)

\* Key events the terminal delivers: [code, ctrl].
CharCodes ==
    {" ", "h", "j", "k", "l", "w", "e", "b", "0", "$", "D", "C", "p", "u", "x", "i", "a", "A",
     "o", "O", "I", "v", "V", "g", "G", "y", "d", "c", "r", "z"}
CtrlCodes == {"e", "y", "d", "u", "f", "b", "r", "c"}
NamedCodes == {"Esc", "Enter", "Backspace", "CapsLock"}

KeyEvents ==
    {[code |-> c, ctrl |-> FALSE] : c \in CharCodes \cup NamedCodes}
    \cup {[code |-> c, ctrl |-> TRUE] : c \in CtrlCodes}

\* Request bodies an earlier editing session may have saved.
InitBodies ==
    { <<>>,
      <<"a", " ", "b", ".">>,
      <<"a", "b", "\n", "c">>,
      <<"a", "\n", "\n">>,
      <<"a", "b", "c", "\n", " ", "b", "\n", "c", "d">> }

\* The text area stays within the model's bounds.
InBounds(ta) ==
    /\ Len(ta.lines) <= MaxLines
    /\ \A i \in 1..Len(ta.lines) : Len(ta.lines[i]) <= MaxCols

\* AppState of a field being edited.
EditingStates == {"EditingUrl", "EditingHeaders", "EditingBody", "EditingQueries"}

\* Option::Some
Some(x) == <<x>>

\* What the host holds besides the editor, as a key finds it.
HostNow ==
    [state |-> state, input_mode |-> input_mode, request |-> current_request,
     loading |-> loading, error_message |-> error_message, in_flight |-> in_flight]

\* No key handled yet since the field was opened.  (text is the text of a paste.)
NoLast ==
    [input |-> NullInput, result |-> Nop, textarea |-> NewTextArea(<<>>),
     vim |-> NewVim(ModeNormal), clipboard |-> <<>>, handled |-> "none", clip_ok |-> TRUE,
     text |-> <<>>,
     host |-> [state |-> "Normal", input_mode |-> "Normal", request |-> NewRequest,
               loading |-> FALSE, error_message |-> None, in_flight |-> <<>>]]

\* Mutant: a mode change that keeps the Vim and its pending input.
ApplyTransition_KeepsPending(self, result) ==
    CASE result.kind = "Mode" -> [self EXCEPT !.mode = result.mode]
      [] result.kind = "Nop" -> self
      [] result.kind = "Pending" -> with_pending(self, result.input)
      [] result.kind = "Quit" -> NewVim(ModeNormal)

\* The match on the Transition in App::handle_editing_mode_key: the Vim that
\* App::vim holds afterwards.
ApplyTransition(self, result) ==
    CASE result.kind = "Mode" /\ self.mode # result.mode -> NewVim(result.mode)
      [] result.kind \in {"Nop", "Mode"} -> self
      [] result.kind = "Pending" -> with_pending(self, result.input)
      [] result.kind = "Quit" -> NewVim(ModeNormal)

\* App::save_current_textarea_content, AppState::EditingBody.
SaveBody(request, ta) == [request EXCEPT !.body = Join(ta.lines, <<"\n">>)]

\* ... AppState::EditingUrl, url_text being the joined and trimmed lines: the
\* request, or the error parse_curl returned.
SaveUrl(request, url_text) ==
    IF StartsWith(url_text, <<"c", "u", "r", "l">>) THEN parse_curl(url_text)
    ELSE Ok([request EXCEPT !.url = url_text])

\* The body of `if let Some((key, value)) = line.split_once(':')`.
InsertTrimmed(map, key, value) ==
    IF key # <<>> /\ value # <<>> THEN MapInsert(map, key, value) ELSE map

InsertLine(map, kv) == IF kv = None THEN map ELSE InsertTrimmed(map, Trim(kv[1]), Trim(kv[2]))

\* The loop over the lines of the headers and of the queries text area.
RECURSIVE ParseKeyValues(_, _)
ParseKeyValues(lines, map) ==
    IF lines = <<>> THEN map
    ELSE ParseKeyValues(Tail(lines), InsertLine(map, split_once(lines[1], ":")))

\* App::save_current_textarea_content: Ok(the request afterwards) or the error.
save_current_textarea_content(st, request, ta) ==
    CASE st = "EditingUrl" -> SaveUrl(request, Trim(Join(ta.lines, <<>>)))
      [] st = "EditingHeaders" ->
            Ok([request EXCEPT !.headers = ParseKeyValues(ta.lines, EmptyMap)])
      [] st = "EditingBody" -> Ok(SaveBody(request, ta))
      [] st = "EditingQueries" ->
            Ok([request EXCEPT !.queries = ParseKeyValues(ta.lines, EmptyMap)])
      [] OTHER -> Ok(request)

\* App::new, and the keys pressed since that made the request one of requests and
\* the active tab of the request section tab.
InitApp(requests, tab) ==
    /\ state = "Normal"
    /\ input_mode = "Normal"
    /\ current_request \in requests
    /\ url_textarea = NewTextArea(<<>>)
    /\ headers_textarea = NewTextArea(<<>>)
    /\ body_textarea = NewTextArea(<<>>)
    /\ queries_textarea = NewTextArea(<<>>)
    /\ request_section_active_tab = tab
    /\ active_tab = "Request"
    /\ vim = NewVim(ModeNormal)
    /\ clipboard = <<>>
    /\ loading = FALSE
    /\ error_message = None
    /\ responses = <<>>
    /\ selected_response = None
    /\ response_rx = <<>>
    /\ in_flight = <<>>
    /\ exited = "no"
    /\ last = NoLast
    /\ prev = NoLast
    /\ nkeys = 0
    /\ panicked = FALSE
    /\ typed = <<>>
    /\ yanked = [field |-> "none", text |-> <<>>]

\* App::new, with a request whose body is one of bodies and the Body tab chosen.
InitWith(bodies) == InitApp({[NewRequest EXCEPT !.body = b] : b \in bodies}, "Body")

Init == InitWith(InitBodies)

\* run_app is still in its loop.
Running == ~panicked /\ exited = "no"

\* Mutant: a field always opened in Normal mode.
OpenMode_AlwaysNormal(content) == ModeNormal

\* The mode of the Vim made when a field is opened: Insert on empty content.
OpenMode(content) == IF content = <<>> THEN ModeInsert ELSE ModeNormal

\* What opening a field has in common: the state, a fresh Vim, nothing handled yet.
Opened(st, content) ==
    /\ Running
    /\ input_mode = "Normal"
    /\ state' = st
    /\ input_mode' = "Editing"
    /\ vim' = NewVim(OpenMode(content))
    /\ last' = NoLast
    /\ prev' = NoLast
    /\ typed' = <<>>
    /\ UNCHANGED <<current_request, clipboard, nkeys, panicked, exited, yanked,
                   tabVars, netVars>>

\* App::handle_normal_mode_key, KeyCode::Char('u').
OpenUrl ==
    /\ Opened("EditingUrl", current_request.url)
    /\ url_textarea' = NewTextArea(<<current_request.url>>)
    /\ UNCHANGED <<headers_textarea, body_textarea, queries_textarea>>

\* App::handle_normal_mode_key, KeyCode::Char('e') with the Headers tab active.
OpenHeaders ==
    /\ request_section_active_tab = "Headers"
    /\ Opened("EditingHeaders", formatted_headers(current_request))
    /\ headers_textarea' = NewTextArea(Lines(formatted_headers(current_request)))
    /\ UNCHANGED <<url_textarea, body_textarea, queries_textarea>>

\* App::handle_normal_mode_key, KeyCode::Char('e') with the Body tab active.
OpenBody ==
    /\ request_section_active_tab = "Body"
    /\ Opened("EditingBody", current_request.body)
    /\ body_textarea' = NewTextArea(Lines(current_request.body))
    /\ UNCHANGED <<url_textarea, headers_textarea, queries_textarea>>

\* App::handle_normal_mode_key, KeyCode::Char('e') with the Query tab active.
OpenQueries ==
    /\ request_section_active_tab = "Query"
    /\ Opened("EditingQueries", formatted_queries(current_request))
    /\ queries_textarea' = NewTextArea(Lines(formatted_queries(current_request)))
    /\ UNCHANGED <<url_textarea, headers_textarea, body_textarea>>

\* A handled key that completed yy, dd or cc: the operator's own letter in its mode.
IsLinewise(l) ==
    /\ l.handled = "transition"
    /\ l.vim.mode.name = "Operator"
    /\ l.input = Key(l.vim.mode.op)

\* The text area App::handle_editing_mode_key picks by the state.
EditedTextarea ==
    CASE state = "EditingUrl" -> url_textarea
      [] state = "EditingHeaders" -> headers_textarea
      [] state = "EditingBody" -> body_textarea
      [] state = "EditingQueries" -> queries_textarea

\* ... as the key left it; the other text areas stay.
SetEditedTextarea(t) ==
    /\ url_textarea' = IF state = "EditingUrl" THEN t ELSE url_textarea
    /\ headers_textarea' = IF state = "EditingHeaders" THEN t ELSE headers_textarea
    /\ body_textarea' = IF state = "EditingBody" THEN t ELSE body_textarea
    /\ queries_textarea' = IF state = "EditingQueries" THEN t ELSE queries_textarea

\* App::handle_editing_mode_key while a field is edited, after the frame's draw.
\* Clipboard::set_text may fail; the unwrap on its result (vim.rs:203, 223) then
\* panics, and nothing catches the panic: the process ends where it is.  An error
\* of save_current_textarea_content is returned, and run_app returns with it.  (In
\* input mode Editing the state is always that of a field: the arm that returns for
\* the other states is never taken.)
HandleEditingModeKey(ev) ==
    /\ Running
    /\ input_mode = "Editing"
    /\ state \in EditingStates
    /\ nkeys' = nkeys + 1
    /\ prev' = IF IsLinewise(last) THEN last ELSE NoLast
    /\ UNCHANGED <<tabVars, netVars>>
    /\ LET ta == render(EditedTextarea)
           input == KeyEventToInput(ev)
           seen(res, how) ==
               [input |-> input, result |-> res, textarea |-> ta, vim |-> vim,
                clipboard |-> clipboard, handled |-> how, clip_ok |-> how # "panicked",
                text |-> <<>>, host |-> HostNow]
       IN IF vim.mode = ModeNormal /\ ev.code = "Enter"
          THEN \E saved \in {save_current_textarea_content(state, current_request, ta)} :
               /\ SetEditedTextarea(ta)
               /\ IF saved.ok
                  THEN /\ current_request' = saved.value
                       /\ state' = "Normal"
                       /\ input_mode' = "Normal"
                       /\ last' = seen(Nop, "saved")
                       /\ UNCHANGED exited
                  ELSE /\ exited' = "error"
                       /\ last' = seen(Nop, "save failed")
                       /\ UNCHANGED <<current_request, state, input_mode>>
               /\ UNCHANGED <<vim, clipboard, panicked, yanked>>
          ELSE IF vim.mode = ModeNormal /\ ev.code = "Esc"
          THEN /\ state' = "Normal"
               /\ input_mode' = "Normal"
               /\ SetEditedTextarea(ta)
               /\ last' = seen(Nop, "closed")
               /\ UNCHANGED <<current_request, vim, clipboard, panicked, exited, yanked>>
          ELSE \E out \in {transition(vim, input, ta, clipboard)} :
               \E set_text_ok \in (IF out.wrote THEN BOOLEAN ELSE {TRUE}) :
                  IF set_text_ok
                  THEN /\ InBounds(out.textarea)
                       /\ SetEditedTextarea(out.textarea)
                       /\ clipboard' = out.clipboard
                       /\ yanked' = IF out.wrote
                                    THEN [field |-> state, text |-> out.clipboard]
                                    ELSE yanked
                       /\ vim' = ApplyTransition(vim, out.result)
                       /\ IF out.result = Quit
                          THEN state' = "Normal" /\ input_mode' = "Normal"
                          ELSE UNCHANGED <<state, input_mode>>
                       /\ last' = seen(out.result, "transition")
                       /\ UNCHANGED <<current_request, panicked, exited>>
                  ELSE /\ panicked' = TRUE
                       /\ last' = seen(Nop, "panicked")
                       /\ UNCHANGED <<state, input_mode, current_request, url_textarea,
                                      headers_textarea, body_textarea, queries_textarea,
                                      vim, clipboard, exited, yanked>>

\* RequestSectionTab::TABS, as_index and from_index.
RequestSectionTabs == <<"Headers", "Body", "Query">>
TabIndex(tab) == (CHOOSE i \in 1..Len(RequestSectionTabs) : RequestSectionTabs[i] = tab) - 1

\* The tab App::request_section_next_tab makes active.
request_section_next_tab(tab) ==
    RequestSectionTabs[((TabIndex(tab) + 1) % Len(RequestSectionTabs)) + 1]

\* The tab App::request_section_previous_tab makes active.
request_section_previous_tab(tab) ==
    RequestSectionTabs[(IF TabIndex(tab) = 0 THEN Len(RequestSectionTabs) - 1
                        ELSE TabIndex(tab) - 1) + 1]

\* Mutant: the keys of the Normal input mode handled in the Editing one as well.
NormalModeKey_AnyInputMode(input) ==
    /\ Running
    /\ last' = [NoLast EXCEPT !.input = input, !.handled = "normal", !.host = HostNow]
    /\ UNCHANGED <<input_mode, url_textarea, headers_textarea, body_textarea,
                   queries_textarea, vim, clipboard, prev, panicked, typed, yanked>>

\* What the arms of App::handle_normal_mode_key that open no field have in common,
\* App::handle_key_event calling it in input mode Normal.
NormalModeKey(input) ==
    /\ Running
    /\ input_mode = "Normal"
    /\ last' = [NoLast EXCEPT !.input = input, !.handled = "normal", !.host = HostNow]
    /\ UNCHANGED <<input_mode, url_textarea, headers_textarea, body_textarea,
                   queries_textarea, vim, clipboard, prev, panicked, typed, yanked>>

\* App::handle_normal_mode_key, KeyCode::Char(']').
NextRequestTab ==
    /\ NormalModeKey(Key("]"))
    /\ request_section_active_tab' = request_section_next_tab(request_section_active_tab)
    /\ UNCHANGED <<state, current_request, exited, active_tab, netVars, nkeys>>

\* App::handle_normal_mode_key, KeyCode::Char('[').
PreviousRequestTab ==
    /\ NormalModeKey(Key("["))
    /\ request_section_active_tab' = request_section_previous_tab(request_section_active_tab)
    /\ UNCHANGED <<state, current_request, exited, active_tab, netVars, nkeys>>

\* Mutant: a request sent without looking at the URL.
send_request_NoUrlCheck ==
    /\ loading' = TRUE
    /\ error_message' = None
    /\ in_flight' = Append(in_flight, current_request)

\* App::send_request up to tokio::spawn, which leaves a task in flight with a clone
\* of the request.
send_request ==
    IF current_request.url = <<>>
    THEN /\ error_message' = Some("URL cannot be empty")
         /\ UNCHANGED <<loading, in_flight>>
    ELSE /\ loading' = TRUE
         /\ error_message' = None
         /\ in_flight' = Append(in_flight, current_request)

\* Mutant: Enter sending whether or not a request is in flight.
SendAllowed_Always(ld) == TRUE

\* `if !self.loading` of the Enter arm.
SendAllowed(ld) == ~ld

\* App::handle_normal_mode_key, KeyCode::Enter.
PressEnter ==
    /\ NormalModeKey(Key("Enter"))
    /\ nkeys' = nkeys + 1
    /\ IF SendAllowed(loading) THEN send_request
       ELSE UNCHANGED <<loading, error_message, in_flight>>
    /\ UNCHANGED <<state, current_request, exited, responses, selected_response,
                   response_rx, tabVars>>

\* MainContentTab::as_index.
MainTabIndex(tab) == IF tab = "Request" THEN 0 ELSE 1

\* MainContentTab::TABS, and the tabs App::next_tab and App::previous_tab make active.
MainContentTabs == <<"Request", "History">>
next_tab(tab) == MainContentTabs[((MainTabIndex(tab) + 1) % Len(MainContentTabs)) + 1]
previous_tab(tab) ==
    MainContentTabs[(IF MainTabIndex(tab) = 0 THEN Len(MainContentTabs) - 1
                     ELSE MainTabIndex(tab) - 1) + 1]

\* The KeyCode::Up arm on selected_response, n responses being stored (n > 0).
SelectUp(sel, n) ==
    IF sel # None THEN (IF sel[1] > 0 THEN Some(sel[1] - 1) ELSE sel)
    ELSE Some(n - 1)

\* Mutant: Down stepping past the last response.
SelectDown_Unclamped(sel, n) == IF sel # None THEN Some(sel[1] + 1) ELSE Some(0)

\* The KeyCode::Down arm on selected_response.
SelectDown(sel, n) ==
    IF sel # None THEN (IF sel[1] < n - 1 THEN Some(sel[1] + 1) ELSE sel)
    ELSE Some(0)

\* App::handle_normal_mode_key for the key codes that neither open a field nor send
\* nor change the tab of the request section: q, Tab, BackTab, m, M, r, ?, c, Up,
\* Down, Esc and the codes of no arm.  The arms match on the code alone; only the c
\* arm reads the modifiers.  (} and { change the tab of the response section, which
\* only the drawing reads.)  Ok(true) of the q arm ends run_app.
HandleNormalModeKey(ev) ==
    /\ ev.code \notin {"u", "e", "]", "[", "Enter"}
    /\ NormalModeKey(KeyEventToInput(ev))
    /\ nkeys' = nkeys + 1
    /\ exited' = IF ev.code = "q" THEN "quit" ELSE exited
    /\ active_tab' = CASE ev.code = "Tab" -> next_tab(active_tab)
                       [] ev.code = "BackTab" -> previous_tab(active_tab)
                       [] OTHER -> active_tab
    /\ current_request' =
          CASE ev.code = "m" -> [current_request EXCEPT !.method = MethodNext(@)]
            [] ev.code = "M" -> [current_request EXCEPT !.method = MethodPrevious(@)]
            [] OTHER -> current_request
    /\ state' = CASE ev.code = "r" -> "ViewingResponse"
                  [] ev.code = "?" -> "Help"
                  [] ev.code = "Esc" /\ state \in {"Help", "ViewingResponse"} -> "Normal"
                  [] OTHER -> state
    /\ responses' = IF ev.code = "c" /\ ev.ctrl THEN <<>> ELSE responses
    /\ selected_response' =
          CASE ev.code = "c" /\ ev.ctrl -> None
            [] ev.code = "Up" /\ active_tab = "History" /\ responses # <<>> ->
                  SelectUp(selected_response, Len(responses))
            [] ev.code = "Down" /\ active_tab = "History" /\ responses # <<>> ->
                  SelectDown(selected_response, Len(responses))
            [] OTHER -> selected_response
    /\ UNCHANGED <<loading, error_message, response_rx, in_flight,
                   request_section_active_tab>>

\* The results the task of a request may send: the response of
\* HttpClient::send_request (of which the model keeps what it answers), or its
\* error as text.
TaskResults(request) ==
    {Ok([url |-> request.url, method |-> request.method]), Err("Request failed")}

\* The task send_request spawned ends: `let _ = tx.send(result)`.
TaskFinishes ==
    /\ Running
    /\ \E i \in 1..Len(in_flight) :
          /\ \E result \in TaskResults(in_flight[i]) :
                response_rx' = Append(response_rx, result)
          /\ in_flight' = Take(in_flight, i - 1) \o Drop(in_flight, i)
    /\ UNCHANGED <<state, input_mode, current_request, body_textarea, vim, clipboard, last,
                   prev, nkeys, panicked, typed, fieldVars, loading, error_message,
                   responses, selected_response, exited, yanked, active_tab>>

\* Mutant: a result taken from the queue without clearing loading.
Received_KeepsLoading(app, result) ==
    IF result.ok
    THEN [app EXCEPT !.responses = Append(app.responses, result.value),
                     !.selected_response = Some(Len(app.responses)),
                     !.error_message = None]
    ELSE [app EXCEPT !.error_message = Some(result.error)]

\* One round of the loop of App::update, on the fields it writes.
Received(app, result) ==
    IF result.ok
    THEN [loading |-> FALSE,
          responses |-> Append(app.responses, result.value),
          selected_response |-> Some(Len(app.responses)),
          error_message |-> None]
    ELSE [app EXCEPT !.loading = FALSE, !.error_message = Some(result.error)]

\* The loop of App::update over what try_recv returns.
RECURSIVE ReceivedAll(_, _)
ReceivedAll(app, results) ==
    IF results = <<>> THEN app
    ELSE ReceivedAll(Received(app, results[1]), Tail(results))

\* App::update when there is something to receive (it does nothing otherwise).
Update ==
    /\ Running
    /\ response_rx # <<>>
    /\ \E app \in {ReceivedAll([loading |-> loading, responses |-> responses,
                                selected_response |-> selected_response,
                                error_message |-> error_message], response_rx)} :
          /\ loading' = app.loading
          /\ responses' = app.responses
          /\ selected_response' = app.selected_response
          /\ error_message' = app.error_message
    /\ response_rx' = <<>>
    /\ UNCHANGED <<state, input_mode, current_request, body_textarea, vim, clipboard, last,
                   prev, nkeys, panicked, typed, fieldVars, in_flight, exited, yanked,
                   active_tab>>

\* Mutant: a paste event taken in every field.
PasteApplies_AnyField(st) == st \in EditingStates

\* `if self.state == AppState::EditingUrl` of App::handle_paste.
PasteApplies(st) == st = "EditingUrl"

\* App::handle_paste, as run_app calls it for Event::Paste; its error ends run_app.
HandlePaste(text) ==
    /\ Running
    /\ nkeys' = nkeys + 1
    /\ UNCHANGED <<headers_textarea, body_textarea, queries_textarea,
                   tabVars, netVars, clipboard, panicked, prev, typed, yanked>>
    /\ IF PasteApplies(state)
       THEN \E ta \in {insert_str(render(url_textarea), text)} :
            \E saved \in {SaveUrl(current_request, Trim(Join(ta.lines, <<>>)))} :
               /\ url_textarea' = ta
               /\ last' = [NoLast EXCEPT !.text = text,
                                         !.handled = IF saved.ok THEN "pasted"
                                                     ELSE "paste failed",
                                         !.vim = vim,
                                         !.host = HostNow]
               /\ IF saved.ok
                  THEN /\ current_request' = saved.value
                       /\ state' = "Normal"
                       /\ input_mode' = "Normal"
                       /\ vim' = NewVim(ModeNormal)
                       /\ UNCHANGED exited
                  ELSE /\ exited' = "error"
                       /\ UNCHANGED <<current_request, state, input_mode, vim>>
       ELSE /\ last' = [NoLast EXCEPT !.text = text, !.handled = "paste ignored",
                                      !.vim = vim, !.host = HostNow]
            /\ UNCHANGED <<state, input_mode, current_request, url_textarea, vim, exited>>

\* Characters typed while the editor is in Insert mode, where every character key
\* does the same (insert_char): a letter, a space and two command letters.
TypedCodes == {"a", " ", "d", "g"}

\* The key events explored in the current mode.
Offered(ev) ==
    vim.mode = ModeInsert /\ ~ev.ctrl /\ ev.code \in CharCodes => ev.code \in TypedCodes

Next ==
    \/ OpenBody
    \/ \E ev \in KeyEvents :
          nkeys < MaxKeys /\ Offered(ev) /\ HandleEditingModeKey(ev) /\ UNCHANGED typed

Spec == Init /\ [][Next]_vars

\* Longer key sequences over fewer keys: motions, the operators, paste, visual mode.
SeqCodes == {"h", "j", "l", "$", "d", "y", "p", "g", "v"}
SeqEvents == {[code |-> c, ctrl |-> FALSE] : c \in SeqCodes}
SeqBodies == { <<"a", "b">>, <<"a", "b", "\n", "c">>, <<"a", "\n", "\n">> }

InitSeq == InitWith(SeqBodies)

NextSeq ==
    \/ OpenBody
    \/ \E ev \in SeqEvents :
          nkeys < MaxSeqKeys /\ HandleEditingModeKey(ev) /\ UNCHANGED typed

SpecSeq == InitSeq /\ [][NextSeq]_vars

\* Insert mode under every key event: a few keys lead into Insert mode, there every
\* key event is tried.
MaxInsKeys == 3
InsBodies == { <<>>, <<"a", "b", "\n", "c">> }
ToInsertCodes == {"i", "a", "o", "c", "v", "l"}

InitIns == InitWith(InsBodies)

OfferedIns(ev) ==
    vim.mode # ModeInsert => ~ev.ctrl /\ ev.code \in ToInsertCodes

NextIns ==
    \/ OpenBody
    \/ \E ev \in KeyEvents :
          nkeys < MaxInsKeys /\ OfferedIns(ev) /\ HandleEditingModeKey(ev) /\ UNCHANGED typed

SpecIns == InitIns /\ [][NextIns]_vars

\* Key sequences typed from the moment the field is opened, which `typed` records:
\* text typed into an empty body, and motions, d and x on a body of two lines.
MaxScnKeys == 5
ScnCodes == {"a", "b", "c", "x", "j", "0", "d", "$", "Esc"}
ScnEvents == {[code |-> c, ctrl |-> FALSE] : c \in ScnCodes}
ScnBodies == { <<>>, <<"a", "b", "\n", "c", "d">> }

InitScn == InitWith(ScnBodies)

NextScn ==
    \/ OpenBody
    \/ \E ev \in ScnEvents :
          /\ nkeys < MaxScnKeys
          /\ HandleEditingModeKey(ev)
          /\ typed' = Append(typed, KeyEventToInput(ev))

SpecScn == InitScn /\ [][NextScn]_vars

\* The fields one after the other: every field is opened, on a request with text in
\* every field and on an empty one; keys that yank, paste, move, save and close; a
\* paste event.  `typed` holds the inputs since the field was opened.
MaxFldKeys == 4
FldCodes == {"y", "p", "l", "$", "v", "Esc", "Enter"}
FldEvents == {[code |-> c, ctrl |-> FALSE] : c \in FldCodes}
FldTexts == { <<"c", "d">> }

FullRequest ==
    [method |-> "Get",
     url |-> <<"a", "b">>,
     headers |-> MapInsert(EmptyMap, <<"k">>, <<"v">>),
     queries |-> MapInsert(EmptyMap, <<"q">>, <<"1">>),
     body |-> <<"a", "b", "\n", "c">>]

InitFld == InitApp({NewRequest, FullRequest}, "Headers")

NextFld ==
    \/ OpenUrl
    \/ OpenHeaders
    \/ OpenBody
    \/ OpenQueries
    \/ NextRequestTab
    \/ PreviousRequestTab
    \/ \E ev \in FldEvents :
          /\ nkeys < MaxFldKeys
          /\ HandleEditingModeKey(ev)
          /\ typed' = Append(typed, KeyEventToInput(ev))
    \/ \E text \in FldTexts : nkeys < MaxFldKeys /\ HandlePaste(text)

SpecFld == InitFld /\ [][NextFld]_vars

\* Requests in flight: Enter in the application's Normal input mode, the task's
\* end and App::update, interleaved with editing sessions in the URL and the body.
MaxNetKeys == 4
NetCodes == {"x", "i", "v", "Esc", "Enter"}
NetEvents == {[code |-> c, ctrl |-> FALSE] : c \in NetCodes}

InitNet == InitApp({NewRequest, FullRequest}, "Body")

NextNet ==
    \/ OpenUrl
    \/ OpenBody
    \/ nkeys < MaxNetKeys /\ PressEnter
    \/ TaskFinishes
    \/ Update
    \/ \E ev \in NetEvents :
          /\ nkeys < MaxNetKeys
          /\ HandleEditingModeKey(ev)
          /\ typed' = Append(typed, KeyEventToInput(ev))

SpecNet == InitNet /\ [][NextNet]_vars

\* The task of a request ends (reqwest's timeout bounds it) and run_app calls
\* App::update in every round of its loop.
SpecNetFair == SpecNet /\ WF_vars(TaskFinishes) /\ WF_vars(Update)

\* The application's Normal input mode: its keys between editing sessions of the URL
\* and the headers, paste events, and requests sent and answered meanwhile.
MaxAppKeys == 4
AppNormalEvents ==
    {[code |-> c, ctrl |-> FALSE] :
        c \in {"q", "Tab", "BackTab", "m", "M", "r", "?", "c", "Up", "Down", "Esc", "z"}}
    \cup {[code |-> "c", ctrl |-> TRUE]}
AppEditEvents == {[code |-> c, ctrl |-> FALSE] : c \in {"i", "Esc", "Enter"}}
AppTexts == { <<"c", "d">>, <<"c", "u", "r", "l">> }

InitApp0 == InitApp({NewRequest, FullRequest}, "Headers")

NextApp ==
    \/ OpenUrl
    \/ OpenHeaders
    \/ nkeys < MaxAppKeys /\ PressEnter
    \/ TaskFinishes
    \/ Update
    \/ \E ev \in AppNormalEvents : nkeys < MaxAppKeys /\ HandleNormalModeKey(ev)
    \/ \E ev \in AppEditEvents :
          /\ nkeys < MaxAppKeys
          /\ HandleEditingModeKey(ev)
          /\ typed' = Append(typed, KeyEventToInput(ev))
    \/ \E text \in AppTexts : nkeys < MaxAppKeys /\ HandlePaste(text)

SpecApp == InitApp0 /\ [][NextApp]_vars

\* curl commands pasted into the URL field of a new request: "curl " and up to
\* MaxCurlItems items separated by spaces, an item being a URL, a flag or a flag
\* with its argument.
MaxCurlItems == 3
CurlItems ==
    {<<"-", "X", " ", "G", "E", "T">>,
     <<"-", "X", " ", "D", "E", "L", "E", "T", "E">>,
     <<"-", "d", " ", "1">>,
     <<"-", "-", "d", "a", "t", "a", "-", "b", "i", "n", "a", "r", "y", " ", "1">>,
     <<"-", "-", "d", "a", "t", "a", " ", "{", "}">>,
     <<"h", "t", "t", "p">>,
     <<"-", "X">>,
     <<"-", "s">>}
CurlCommands == UNION {[1..n -> CurlItems] : n \in 1..MaxCurlItems}
CurlText(items) == <<"c", "u", "r", "l", " ">> \o Join(items, <<" ">>)

InitCurl == InitApp({NewRequest}, "Headers")

NextCurl ==
    \/ OpenUrl
    \/ /\ state = "EditingUrl"
       /\ current_request = NewRequest
       /\ \E items \in CurlCommands : HandlePaste(CurlText(items))

SpecCurl == InitCurl /\ [][NextCurl]_vars

\* Headers and queries that came with a pasted curl command, then opened in their
\* editors and saved or closed: "curl " and up to MaxRtItems items, an item being a
\* URL with or without a query string, a flag with its argument or a flag alone;
\* some of the commands parse_curl refuses.  And the URL "cur" saved before, to which
\* the keys A and l add the l.
MaxRtItems == 2
MaxRtKeys == 4
RtItems ==
    {<<"h", "t", "t", "p">>,
     <<"h", "t", "t", "p", "?", "b">>,
     <<"h", "t", "t", "p", "?", "a", ":", "b", "=", "1">>,
     <<"h", "t", "t", "p", "?", "a", "=", "1", "&", "b", "c", "=", "2">>,
     <<"-", "H", " ", "k", ":", "v">>,
     <<"-", "H", " ", "k", ":">>,
     <<"-", "H", " ", "k">>,
     <<"-", "X", " ", "B">>,
     <<"-", "X">>,
     <<"\"", "h", "t", "t", "p">>}
RtCommands == UNION {[1..n -> RtItems] : n \in 1..MaxRtItems}
RtEvents == {[code |-> c, ctrl |-> FALSE] : c \in {"Enter", "Esc", "A", "l"}}

InitRt == InitApp({NewRequest, [NewRequest EXCEPT !.url = <<"c", "u", "r">>]}, "Headers")

\* A and l are tried on the URL "cur" only; a command is pasted before any key.
OfferedRt(ev) ==
    ev.code \in {"A", "l"} => state = "EditingUrl" /\ current_request.url = <<"c", "u", "r">>

NextRt ==
    \/ OpenUrl
    \/ OpenHeaders
    \/ OpenQueries
    \/ NextRequestTab
    \/ /\ state = "EditingUrl"
       /\ current_request = NewRequest
       /\ nkeys = 0
       /\ \E items \in RtCommands : HandlePaste(CurlText(items))
    \/ \E ev \in RtEvents :
          /\ nkeys < MaxRtKeys
          /\ OfferedRt(ev)
          /\ HandleEditingModeKey(ev)
          /\ typed' = Append(typed, KeyEventToInput(ev))

SpecRt == InitRt /\ [][NextRt]_vars

---------------------------------------------------------------------------
(* Properties.  `last` holds the input of the last key, what Vim::transition *)
(* returned for it, and the text area, Vim and clipboard it was called with. *)

\* The last key went through Vim::transition.
Transitioned == last.handled = "transition"

\* ... in Normal, Visual or Operator mode.
TransitionedNVO == Transitioned /\ last.vim.mode # ModeInsert

\* The last key was the second d of dd.
LastIsDD == Transitioned /\ last.vim.mode = Operator("d") /\ last.input = Key("d")

LastLines == last.textarea.lines
LastRow == last.textarea.cursor[1]
LastCol == last.textarea.cursor[2]

\* The lines with text (a Vec of line pieces) inserted at a position.
InsertedAt(lines, pos, text) ==
    LET line == lines[pos[1] + 1]
        n == Len(text)
    IN Take(lines, pos[1])
       \o (IF n = 1
           THEN <<Take(line, pos[2]) \o text[1] \o Drop(line, pos[2])>>
           ELSE <<Take(line, pos[2]) \o text[1]>> \o SubSeq(text, 2, n - 1)
                \o <<text[n] \o Drop(line, pos[2])>>)
       \o Drop(lines, pos[1] + 1)

\* C1: d then d on a line that is not the last removes exactly that line, whatever
\* the cursor column, and returns ModeChanged(Normal).
C1_DDRemovesTheLine ==
    LastIsDD /\ LastRow < Len(LastLines) - 1 =>
        /\ body_textarea.lines = Take(LastLines, LastRow) \o Drop(LastLines, LastRow + 1)
        /\ last.result = TransitionMode(ModeNormal)

\* dd was pressed with the cursor inside a line that has a line below it.
C1_Witness ==
    /\ LastIsDD
    /\ LastRow < Len(LastLines) - 1
    /\ LastCol > 0
    /\ Len(body_textarea.lines) = Len(LastLines) - 1

\* C2: d then d on the last line empties that line and nothing else: the number of
\* lines and the other lines stay, and the mode is Normal again.
C2_DDOnLastLineEmptiesIt ==
    LastIsDD /\ LastRow = Len(LastLines) - 1 =>
        /\ body_textarea.lines = [LastLines EXCEPT ![LastRow + 1] = <<>>]
        /\ last.result = TransitionMode(ModeNormal)
        /\ vim.mode = ModeNormal

\* dd was pressed on the non-empty last line of a buffer of several lines.
C2_Witness ==
    /\ LastIsDD
    /\ LastRow = Len(LastLines) - 1
    /\ LastRow > 0
    /\ LastLines[LastRow + 1] # <<>>
    /\ body_textarea.lines[LastRow + 1] = <<>>

\* C3: in Normal, Visual or Operator mode a g with no g pending yields Pending(g),
\* which the host stores, and leaves the text area as it was; a g with g pending
\* leaves the cursor on the first line.
C3_FirstGPendsSecondGoesToTop ==
    TransitionedNVO /\ last.input = Key("g") =>
        IF last.vim.pending = Key("g")
        THEN body_textarea.cursor[1] = 0
        ELSE /\ last.result = Pending(Key("g"))
             /\ body_textarea = last.textarea
             /\ vim = [mode |-> last.vim.mode, pending |-> Key("g")]

\* The second g of gg was pressed in Visual mode below the first line.
C3_Witness ==
    /\ Transitioned
    /\ last.vim.mode = ModeVisual
    /\ last.input = Key("g")
    /\ last.vim.pending = Key("g")
    /\ LastRow > 0
    /\ body_textarea.cursor[1] = 0

\* C4: a pending g is discarded by any other input: once a key other than g has
\* been handled with g pending, g is no longer pending (so a later single g pends
\* anew instead of moving to the first line).
C4_PendingGDiscardedByOtherKey ==
    Transitioned /\ last.vim.pending = Key("g") /\ last.input # Key("g") =>
        vim.pending # Key("g")

\* C5: the pending input is cleared when gg consumes it: after the second g the
\* stored pending input is empty.
C5_PendingClearedOnceConsumed ==
    TransitionedNVO /\ last.input = Key("g") /\ last.vim.pending = Key("g") =>
        vim.pending = NullInput

\* C6: whenever the mode is Visual the text area has an active selection.
C6_VisualImpliesSelection ==
    vim.mode = ModeVisual => body_textarea.selection_start # None

\* A key handled in Visual mode moved the cursor and left the mode Visual.
C6_Witness ==
    /\ Transitioned
    /\ last.vim.mode = ModeVisual
    /\ vim.mode = ModeVisual
    /\ body_textarea.cursor # last.textarea.cursor
    /\ body_textarea.selection_start # None

\* C7: every transition from Visual mode to Normal mode leaves no active selection.
C7_LeavingVisualCancelsSelection ==
    Transitioned /\ last.vim.mode = ModeVisual /\ last.result = TransitionMode(ModeNormal) =>
        body_textarea.selection_start = None

\* C8: Esc or v in Visual mode cancels the selection, yields ModeChanged(Normal)
\* (so the mode is Normal) and leaves the text unchanged.
C8_EscOrVLeavesVisual ==
    Transitioned /\ last.vim.mode = ModeVisual
        /\ (last.input.key = "Esc" \/ last.input = Key("v")) =>
        /\ body_textarea.selection_start = None
        /\ last.result = TransitionMode(ModeNormal)
        /\ vim.mode = ModeNormal
        /\ body_textarea.lines = LastLines

\* Esc was pressed in Visual mode with a non-empty selection.
C8_Witness ==
    /\ Transitioned
    /\ last.vim.mode = ModeVisual
    /\ last.input.key = "Esc"
    /\ last.textarea.selection_start # None
    /\ last.textarea.selection_start # last.textarea.cursor
    /\ vim.mode = ModeNormal

\* C9: y in Visual mode copies the selected text, the character under the cursor
\* included, to the internal register and to the clipboard, returns
\* ModeChanged(Normal) and leaves the text unchanged, whether the cursor is after
\* or before the anchor.  (With the cursor before the anchor the text required here
\* is only the one from the cursor up to the anchor.)
C9_VisualYankCopiesSelection ==
    Transitioned /\ last.vim.mode = ModeVisual /\ last.input = Key("y") =>
        LET ta == last.textarea
            a == ta.selection_start
            c == ta.cursor
            f == next_cursor("Forward", c, ta.lines, ta.top)
            lo == IF PosLess(c, a) THEN c ELSE a
            hi == IF PosLess(c, a) THEN a ELSE IF f = None THEN c ELSE f
        IN /\ last.result = TransitionMode(ModeNormal)
           /\ body_textarea.lines = ta.lines
           /\ lo # hi =>
                /\ body_textarea.yank = text_between(ta.lines, lo, hi)
                /\ clipboard = Join(text_between(ta.lines, lo, hi), <<"\n">>)

\* C10: p right after yy or dd inserts at the cursor exactly the text that yy
\* copied or dd removed (the line and, unless it is the last line, its newline);
\* after dd that restores the text dd was pressed on.
C10_PasteAfterLinewise ==
    /\ Transitioned
    /\ last.input = Key("p")
    /\ last.vim.mode = ModeNormal
    /\ IsLinewise(prev)
    /\ prev.vim.mode.op \in {"y", "d"}
    => LET lines == prev.textarea.lines
           row == prev.textarea.cursor[1]
           text == IF row < Len(lines) - 1 THEN <<lines[row + 1], <<>>>> ELSE <<lines[row + 1]>>
       IN /\ body_textarea.lines = InsertedAt(LastLines, last.textarea.cursor, text)
          /\ prev.vim.mode.op = "d" => body_textarea.lines = lines

\* C11: a Null key yields NoOp in every mode and with any pending input, and leaves
\* the text area (text, cursor, selection, register), the clipboard, the mode and
\* the pending input as they were.
C11_NullKeyIsNoOp ==
    Transitioned /\ last.input.key = "Null" =>
        /\ last.result = Nop
        /\ body_textarea = last.textarea
        /\ clipboard = last.clipboard
        /\ vim = last.vim

\* A Null key was handled in Visual mode while g was pending.
C11_Witness ==
    /\ Transitioned
    /\ last.input.key = "Null"
    /\ last.vim.mode = ModeVisual
    /\ last.vim.pending = Key("g")
    /\ last.textarea.selection_start # None

\* The last key was handled in Insert mode and is not one of its exit keys.
LastInsertKey ==
    /\ Transitioned
    /\ last.vim.mode = ModeInsert
    /\ last.input.key # "Esc"
    /\ last.input # Ctrl("c")

\* What C12 says of a key: it yields ModeChanged(Insert), it is handed to
\* TextArea::input as it is, and a character key without ctrl, a letter of the
\* command vocabulary included, is inserted at the cursor.
InsertedVerbatim ==
    /\ last.result = TransitionMode(ModeInsert)
    /\ vim.mode = ModeInsert
    /\ body_textarea = ta_input(last.textarea, last.input)
    /\ last.input.key \notin NamedKeys /\ ~last.input.ctrl =>
          /\ body_textarea.lines =
                InsertedAt(LastLines, last.textarea.cursor, << <<last.input.key>> >>)
          /\ body_textarea.cursor = <<LastRow, LastCol + 1>>

\* C12 as stated: in Insert mode every input other than Esc and Ctrl+c yields
\* ModeChanged(Insert) and is forwarded to the text area unchanged.
C12_EveryInsertKeyForwarded == LastInsertKey => InsertedVerbatim

\* C12, amended: in Insert mode every input other than Esc, Ctrl+c and the Null key
\* yields ModeChanged(Insert) and is forwarded to the text area unchanged; the
\* letters of the motion and command vocabulary are inserted as text.
C12_InsertKeysForwardedExceptNull ==
    LastInsertKey /\ last.input.key # "Null" => InsertedVerbatim

\* A letter of the command vocabulary was typed in Insert mode inside a line.
C12_Witness ==
    /\ LastInsertKey
    /\ last.input \in {Key("h"), Key("x"), Key("d"), Key("G"), Key("$")}
    /\ LastCol > 0
    /\ Len(body_textarea.lines[LastRow + 1]) = Len(LastLines[LastRow + 1]) + 1

\* C13: Esc or Ctrl+c in Insert mode yields ModeChanged(Normal), so the mode is
\* Normal, and does nothing to the text area: text, cursor and register stay.
C13_EscLeavesInsertUntouched ==
    Transitioned /\ last.vim.mode = ModeInsert
        /\ (last.input.key = "Esc" \/ last.input = Ctrl("c")) =>
        /\ last.result = TransitionMode(ModeNormal)
        /\ vim = NewVim(ModeNormal)
        /\ body_textarea = last.textarea
        /\ clipboard = last.clipboard

\* Ctrl+c was pressed in Insert mode after text was typed.
C13_Witness ==
    /\ Transitioned
    /\ last.vim.mode = ModeInsert
    /\ last.input = Ctrl("c")
    /\ LastCol > 0
    /\ last.textarea.index > 0
    /\ vim.mode = ModeNormal

\* C14: the mode is Operator(op) only for op one of y, d, c, and it became so only
\* by that key, without ctrl, pressed in Normal mode, which started a selection at
\* the cursor and left text and cursor alone; otherwise the mode was Operator(op)
\* already.
C14_OperatorOnlyFromNormal ==
    vim.mode.name = "Operator" =>
        /\ vim.mode.op \in {"y", "d", "c"}
        /\ \/ last.vim.mode = vim.mode
           \/ /\ Transitioned
              /\ last.vim.mode = ModeNormal
              /\ last.input = Key(vim.mode.op)
              /\ last.result = TransitionMode(vim.mode)
              /\ body_textarea.selection_start = last.textarea.cursor
              /\ body_textarea.cursor = last.textarea.cursor
              /\ body_textarea.lines = LastLines

\* c was pressed in Normal mode with the cursor inside a line.
C14_Witness ==
    /\ Transitioned
    /\ last.vim.mode = ModeNormal
    /\ last.input = Key("c")
    /\ LastCol > 0
    /\ vim.mode = Operator("c")
    /\ body_textarea.selection_start = last.textarea.cursor

\* The inputs of the motion arms (vim.rs:91-104, 160-165, 185), and g when g is
\* pending (vim.rs:180-184).
MotionInputs ==
    {Key(c) : c \in {"h", "j", "k", "l", "w", "e", "b", "0", "$", "G"}}
    \cup {Ctrl(c) : c \in {"e", "y", "d", "u", "f", "b"}}

\* The last key was a motion handled in Operator(op) mode.
LastIsOperatorMotion(op) ==
    /\ Transitioned
    /\ last.vim.mode = Operator(op)
    /\ \/ last.input \in MotionInputs
       \/ last.input = Key("g") /\ last.vim.pending = Key("g")

\* Where the last key's motion arm left the cursor.
MotionEnd == Dispatch(last.vim, last.input, last.textarea, last.clipboard).textarea.cursor

\* The earlier and the later of the cursor before the last key and MotionEnd.
MotionLo == IF PosLess(MotionEnd, last.textarea.cursor) THEN MotionEnd ELSE last.textarea.cursor
MotionHi == IF PosLess(MotionEnd, last.textarea.cursor) THEN last.textarea.cursor ELSE MotionEnd

\* C15: a motion in Operator('y') mode copies the text between the position y was
\* pressed at and the motion's end to the internal register and to the clipboard,
\* which then hold the same text; the text is unchanged and the result is
\* ModeChanged(Normal).
C15_YankMotionCopiesRange ==
    LastIsOperatorMotion("y") =>
        /\ last.result = TransitionMode(ModeNormal)
        /\ vim.mode = ModeNormal
        /\ body_textarea.lines = LastLines
        /\ clipboard = yank_text(body_textarea)
        /\ MotionLo # MotionHi =>
              body_textarea.yank = text_between(LastLines, MotionLo, MotionHi)

\* y then a motion to another line copied text with a newline in it.
C15_Witness ==
    /\ LastIsOperatorMotion("y")
    /\ MotionEnd[1] # LastRow
    /\ Len(body_textarea.yank) > 1
    /\ clipboard # <<>>

\* C16: a motion in Operator('d') or Operator('c') mode cuts exactly the text
\* between the position the operator was pressed at and the motion's end into the
\* internal register; the result is ModeChanged(Normal) for d and
\* ModeChanged(Insert) for c.
C16_CutMotionCutsRange ==
    \A op \in {"d", "c"} :
        LastIsOperatorMotion(op) =>
            /\ last.result = TransitionMode(IF op = "d" THEN ModeNormal ELSE ModeInsert)
            /\ vim.mode = (IF op = "d" THEN ModeNormal ELSE ModeInsert)
            /\ body_textarea.lines = lines_without(LastLines, MotionLo, MotionHi)
            /\ MotionLo # MotionHi =>
                  /\ body_textarea.yank = text_between(LastLines, MotionLo, MotionHi)
                  /\ body_textarea.cursor = MotionLo

\* c then a backward motion cut text before the cursor.
C16_Witness ==
    /\ LastIsOperatorMotion("c")
    /\ PosLess(MotionEnd, last.textarea.cursor)
    /\ body_textarea.lines # LastLines
    /\ vim.mode = ModeInsert

\* The body the field was opened on (saved again only by Enter).
OpenedLines == Lines(current_request.body)

\* The field is open and the first n inputs of a key sequence are what was typed
\* since it was opened.
Typed(keys, n) == state = "EditingBody" /\ ~panicked /\ typed = SubSeq(keys, 1, n)

\* j, 0, d, $
KeysJ0D_End == <<Key("j"), Key("0"), Key("d"), Key("$")>>

\* C17: on a body of two lines, opened in Normal mode with the cursor at its start,
\* j moves to line 2, 0 to its column 0, and d then $ empties line 2: line 1 and
\* the number of lines stay and the mode is Normal again.
C17_DeleteToEndOfSecondLine ==
    Len(OpenedLines) = 2 =>
        /\ Typed(KeysJ0D_End, 0) => vim.mode = ModeNormal /\ body_textarea.cursor = <<0, 0>>
        /\ Typed(KeysJ0D_End, 1) => vim.mode = ModeNormal /\ body_textarea.cursor[1] = 1
        /\ Typed(KeysJ0D_End, 2) => vim.mode = ModeNormal /\ body_textarea.cursor = <<1, 0>>
        /\ Typed(KeysJ0D_End, 3) =>
              /\ vim.mode = Operator("d")
              /\ body_textarea.cursor = <<1, 0>>
              /\ body_textarea.lines = OpenedLines
        /\ Typed(KeysJ0D_End, 4) =>
              /\ vim.mode = ModeNormal
              /\ body_textarea.lines = <<OpenedLines[1], <<>>>>

\* j, 0, d, $ was typed on a body whose second line had text.
C17_Witness ==
    /\ Len(OpenedLines) = 2
    /\ OpenedLines[2] # <<>>
    /\ Typed(KeysJ0D_End, 4)
    /\ body_textarea.lines[2] = <<>>

\* a, b, c, Esc, x
KeysAbcEscX == <<Key("a"), Key("b"), Key("c"), Key("Esc"), Key("x")>>

\* C18: on an empty body, opened in Insert mode, typing a, b, c gives the text
\* "abc"; Esc then gives Normal mode; x then deletes the last character typed and
\* the mode stays Normal.
C18_TypeEscapeDelete ==
    OpenedLines = <<>> =>
        /\ Typed(KeysAbcEscX, 0) => vim.mode = ModeInsert
        /\ Typed(KeysAbcEscX, 3) =>
              vim.mode = ModeInsert /\ body_textarea.lines = << <<"a", "b", "c">> >>
        /\ Typed(KeysAbcEscX, 4) =>
              vim.mode = ModeNormal /\ body_textarea.lines = << <<"a", "b", "c">> >>
        /\ Typed(KeysAbcEscX, 5) =>
              vim.mode = ModeNormal /\ body_textarea.lines = << <<"a", "b">> >>

\* C19: a clipboard write that fails during a yank is not fatal: the key is still
\* handled, the process goes on and the mode is Normal.
C19_ClipboardFailureIsNotFatal ==
    ~last.clip_ok =>
        /\ ~panicked
        /\ last.handled = "transition"
        /\ vim.mode = ModeNormal

\* The last key cut a selection: d or c in Visual mode, or a motion or the
\* operator's own letter in Operator('d') or Operator('c') mode, and text went.
LastIsCut ==
    /\ Transitioned
    /\ \/ last.vim.mode = ModeVisual /\ last.input \in {Key("d"), Key("c")}
       \/ LastIsOperatorMotion("d")
       \/ LastIsOperatorMotion("c")
       \/ IsLinewise(last) /\ last.vim.mode.op \in {"d", "c"}
    /\ body_textarea.lines # LastLines

\* C20: a cut writes the clipboard: after a cut of a non-empty selection the
\* clipboard holds the text that was cut (which the internal register holds).
C20_CutWritesClipboard ==
    LastIsCut => clipboard = yank_text(body_textarea)

\* p is the first key pressed in the field being edited, which opened in Normal mode.
PasteIsFirstKey ==
    /\ state \in EditingStates
    /\ Transitioned
    /\ typed = <<Key("p")>>
    /\ last.vim.mode = ModeNormal

\* C21: the register p reads is shared by the fields: when text was yanked in one
\* field and p is the first key pressed in another field opened afterwards, p
\* inserts that text at the cursor.
C21_RegisterSharedAcrossFields ==
    PasteIsFirstKey /\ yanked.field \notin {"none", state} =>
        EditedTextarea.lines = InsertedAt(LastLines, last.textarea.cursor, Split(yanked.text))

\* Inputs the dispatch table has no arm for in the mode they are pressed in: Esc or
\* Enter or Backspace outside Visual mode, v or V in Operator mode, another
\* operator letter in Operator mode, r or z without ctrl, g with no g pending.
LastIsUnmapped ==
    /\ TransitionedNVO
    /\ \/ last.input \in {Key("r"), Key("z"), Key("Backspace"), Key("CapsLock"), Ctrl("c")}
       \/ last.input.key \in {"Esc", "Enter"} /\ last.vim.mode # ModeVisual
       \/ last.input = Key("g") /\ last.vim.pending # Key("g")
       \/ /\ last.vim.mode.name = "Operator"
          /\ \/ last.input \in {Key("v"), Key("V")}
             \/ last.input \in {Key("y"), Key("d"), Key("c")} /\ last.input.key # last.vim.mode.op

JustOpened == input_mode = "Editing" /\ state \in EditingStates /\ last = NoLast

\* The request has nothing in the field that is open.
OpenedFieldIsEmpty ==
    CASE state = "EditingUrl" -> current_request.url = <<>>
      [] state = "EditingHeaders" -> current_request.headers = EmptyMap
      [] state = "EditingBody" -> current_request.body = <<>>
      [] state = "EditingQueries" -> current_request.queries = EmptyMap

\* C23: when the URL, headers, body or queries field is opened, the Vim is a new
\* one with no pending input, in Insert mode if the request has nothing in that
\* field and in Normal mode otherwise.
C23_OpenedFieldHasFreshVim ==
    JustOpened =>
        /\ vim.pending = NullInput
        /\ vim.mode = IF OpenedFieldIsEmpty THEN ModeInsert ELSE ModeNormal

\* The empty queries field was opened after an editing session in the URL field
\* that yanked.
C23_Witness ==
    /\ JustOpened
    /\ state = "EditingQueries"
    /\ OpenedFieldIsEmpty
    /\ vim = NewVim(ModeInsert)
    /\ yanked.field = "EditingUrl"

\* What Vim::transition and the host make of the last key, from what the key found.
LastKeyAsTransitionSays ==
    \E out \in {transition(last.vim, last.input, last.textarea, last.clipboard)} :
       /\ last.result = out.result
       /\ EditedTextarea = out.textarea
       /\ clipboard = out.clipboard
       /\ vim = ApplyTransition(last.vim, out.result)

\* C24: while a request is in flight (loading) key events are still handled: a key
\* in an edited field does what Vim::transition says, Enter and Esc in the editor's
\* Normal mode save and close the field, and only Enter in the application's Normal
\* input mode is ignored: it starts no further request.
C24_KeysNotBlockedWhileLoading ==
    /\ Transitioned /\ last.host.loading => LastKeyAsTransitionSays
    /\ last.handled \in {"saved", "closed"} /\ last.host.loading =>
          state = "Normal" /\ input_mode = "Normal"
    /\ last.handled = "saved" /\ last.host.loading /\ last.host.state = "EditingBody" =>
          current_request.body = Join(body_textarea.lines, <<"\n">>)
    /\ last.handled = "normal" /\ last.input = Key("Enter") /\ last.host.loading =>
          Len(in_flight) <= Len(last.host.in_flight)
    /\ loading /\ Running /\ input_mode = "Editing" =>
          ENABLED HandleEditingModeKey([code |-> "Esc", ctrl |-> FALSE])
    /\ loading /\ Running /\ input_mode = "Normal" => ENABLED PressEnter

\* x deleted a character of the body while the request sent before was in flight.
C24_Witness ==
    /\ Transitioned
    /\ last.host.loading
    /\ loading
    /\ in_flight # <<>>
    /\ last.input = Key("x")
    /\ state = "EditingBody"
    /\ body_textarea.lines # last.textarea.lines

\* The last response of the history is the selected one and no error is shown.
ResponseSurfaced ==
    /\ responses # <<>>
    /\ selected_response = Some(Len(responses) - 1)
    /\ error_message = None

\* C25: once send_request has set loading, and as long as run_app is in its loop,
\* loading eventually becomes false with either a response at the end of the history
\* and selected, or error_message set; and the step that clears loading is one that
\* appends a response and selects it, or sets error_message.
C25_RequestEventuallySurfaces ==
    /\ loading ~> (~Running \/ (~loading /\ (ResponseSurfaced \/ error_message # None)))
    /\ [][loading /\ ~loading' =>
             \/ /\ Len(responses') = Len(responses) + 1
                /\ Take(responses', Len(responses)) = responses
                /\ ResponseSurfaced'
             \/ responses' = responses /\ error_message' = Some("Request failed")]_vars

\* The response to the request for "ab" is in the history and selected.
C25_Witness ==
    /\ ~loading
    /\ ResponseSurfaced
    /\ responses[Len(responses)].url = <<"a", "b">>
    /\ in_flight = <<>>
    /\ response_rx = <<>>

\* The last paste was a curl command that parse_curl accepted; its words.
PastedCurl == last.handled = "pasted" /\ StartsWith(last.text, <<"c", "u", "r", "l", " ">>)
PastedWords == SplitOn(Drop(last.text, 5), " ")

\* The words after which parse_curl reads a method: with the commands of the model,
\* every -X of an accepted command is one.
MethodFlagAt == {i \in 1..(Len(PastedWords) - 1) : PastedWords[i] \in MethodFlags}
HasDataFlag == \E i \in 1..Len(PastedWords) : PastedWords[i] \in DataFlags

\* C26: parse_curl yields POST for a command with a data flag and no -X, GET for a
\* command with neither, and the method given for a command with -X (the last one
\* given, if there are several).
C26_CurlMethod ==
    PastedCurl =>
        /\ MethodFlagAt = {} /\ HasDataFlag => current_request.method = "Post"
        /\ MethodFlagAt = {} /\ ~HasDataFlag => current_request.method = "Get"
        /\ \A i \in MethodFlagAt :
              (\A j \in MethodFlagAt : j <= i) =>
                  MethodNames[current_request.method] = PastedWords[i + 1]

\* C27: d and c in Visual mode remove the selected range, the character under the
\* cursor included, and put it in the yank register, whether the cursor is after or
\* before the anchor; d returns Mode(Normal) and c returns Mode(Insert).
C27_VisualCutRemovesSelection ==
    Transitioned /\ last.vim.mode = ModeVisual /\ last.input \in {Key("d"), Key("c")} =>
        LET ta == last.textarea
            a == ta.selection_start
            c == ta.cursor
            f == next_cursor("Forward", c, ta.lines, ta.top)
            lo == IF PosLess(c, a) THEN c ELSE a
            hi == IF PosLess(c, a) THEN a ELSE IF f = None THEN c ELSE f
        IN /\ last.result =
                TransitionMode(IF last.input = Key("d") THEN ModeNormal ELSE ModeInsert)
           /\ lo # hi =>
                /\ body_textarea.lines = lines_without(ta.lines, lo, hi)
                /\ body_textarea.yank = text_between(ta.lines, lo, hi)

\* The last key was e outside Insert mode; where WordEnd takes the cursor from where
\* the key found it (None if nowhere), and one step Forward from there.
LastIsE == Transitioned /\ last.input = Key("e") /\ last.vim.mode # ModeInsert
LastWordEnd ==
    next_cursor("WordEnd", last.textarea.cursor, last.textarea.lines, last.textarea.top)
PastLastWordEnd == next_cursor("Forward", LastWordEnd, last.textarea.lines, last.textarea.top)

\* There is a word after the cursor: WordEnd lands on a character, the word's last.
\* (With no word ahead WordEnd goes to the end of the text.)
WordEndAhead ==
    /\ LastWordEnd # None
    /\ LastWordEnd[2] < Len(LastLines[LastWordEnd[1] + 1])
    /\ KindAt(LastLines[LastWordEnd[1] + 1], LastWordEnd[2]) # "Space"

\* C28: in Normal and Visual mode e puts the cursor on the end of the word and does
\* nothing else; in Operator mode the operator covers the text from the cursor up to
\* and including the character at the end of the word: ye copies it, de and ce
\* remove it.
C28_WordEndInclusiveInOperatorMode ==
    LastIsE /\ WordEndAhead =>
        IF last.vim.mode.name = "Operator"
        THEN /\ PastLastWordEnd # None
             /\ body_textarea.yank =
                   text_between(LastLines, last.textarea.cursor, PastLastWordEnd)
             /\ PastLastWordEnd = <<LastWordEnd[1], LastWordEnd[2] + 1>>
             /\ body_textarea.lines =
                   IF last.vim.mode.op = "y" THEN LastLines
                   ELSE lines_without(LastLines, last.textarea.cursor, PastLastWordEnd)
        ELSE /\ last.result = Nop
             /\ body_textarea.cursor = LastWordEnd
             /\ body_textarea.lines = LastLines
             /\ body_textarea.selection_start = last.textarea.selection_start
             /\ body_textarea.yank = last.textarea.yank

\* de on "abc" removed the whole word.
C28_Witness ==
    /\ LastIsE
    /\ last.vim.mode = Operator("d")
    /\ LastLines[1] = <<"a", "b", "c">>
    /\ last.textarea.cursor = <<0, 0>>
    /\ body_textarea.lines[1] = <<>>
    /\ body_textarea.yank = << <<"a", "b", "c">> >>

\* The keys of the scroll arms.
ScrollInputs == {Ctrl(c) : c \in {"e", "y", "d", "u", "f", "b"}}

\* C29: in Normal, Visual and Operator mode Ctrl+e, Ctrl+y, Ctrl+d, Ctrl+u, Ctrl+f
\* and Ctrl+b change neither the text nor the mode, and yank nothing and undo
\* nothing; d, u, e, b and y without ctrl leave the view where it is.
C29_ScrollKeysOnlyScroll ==
    /\ TransitionedNVO /\ last.input \in ScrollInputs =>
          /\ body_textarea.lines = LastLines
          /\ vim.mode = last.vim.mode
          /\ body_textarea.yank = last.textarea.yank
          /\ clipboard = last.clipboard
          /\ body_textarea.index = last.textarea.index
    /\ TransitionedNVO /\ last.input \in {Key(c) : c \in {"d", "u", "e", "b", "y"}} =>
          body_textarea.top = last.textarea.top

\* C30: Vim::transition never returns Quit: whatever the mode, the pending input and
\* the input, the result is Nop, Mode or Pending and the field stays open; a field
\* is closed only by the host's handling of Enter or Esc in the editor's Normal
\* mode, or by a paste.
C30_TransitionNeverQuits ==
    /\ Transitioned =>
          /\ last.result.kind \in {"Nop", "Mode", "Pending"}
          /\ input_mode = "Editing"
          /\ state = last.host.state
    /\ last.host.input_mode = "Editing" /\ input_mode = "Normal" =>
          /\ last.handled \in {"saved", "closed", "pasted"}
          /\ last.handled = "saved" => last.vim.mode = ModeNormal /\ last.input.key = "Enter"
          /\ last.handled = "closed" => last.vim.mode = ModeNormal /\ last.input.key = "Esc"
          /\ last.handled = "pasted" => last.host.state = "EditingUrl"

\* Esc in Operator mode went through Vim::transition and left the field open.
C30_Witness ==
    /\ Transitioned
    /\ last.input.key = "Esc"
    /\ last.vim.mode = Operator("y")
    /\ last.result = Pending(Key("Esc"))
    /\ input_mode = "Editing"
    /\ state = "EditingBody"

\* C31: in Operator mode a key other than Null never yields Nop: the result is
\* Pending, and the mode stays the Operator mode it was, or it is Mode(Normal) or
\* Mode(Insert), and the Vim is then a new one in that mode.
C31_OperatorModeNeverNop ==
    Transitioned /\ last.vim.mode.name = "Operator" /\ last.input.key # "Null" =>
        \/ /\ last.result = Pending(last.input)
           /\ vim.mode = last.vim.mode
        \/ /\ last.result \in {TransitionMode(ModeNormal), TransitionMode(ModeInsert)}
           /\ vim = NewVim(last.result.mode)

\* A motion that could not move the cursor (h at the start of the text) still ended
\* Operator('d') mode.
C31_Witness ==
    /\ Transitioned
    /\ last.vim.mode = Operator("d")
    /\ last.input = Key("h")
    /\ last.textarea.cursor = <<0, 0>>
    /\ last.result = TransitionMode(ModeNormal)
    /\ vim.mode = ModeNormal
    /\ body_textarea.lines = LastLines

\* C32: a Vim in Insert mode has no pending input: a key that changes the mode
\* leaves a new Vim in the new mode, and a key handled in Insert mode never yields
\* Pending.
C32_InsertModeHasNoPending ==
    /\ vim.mode = ModeInsert => vim.pending = NullInput
    /\ Transitioned /\ vim.mode # last.vim.mode => vim = NewVim(vim.mode)
    /\ Transitioned /\ last.vim.mode = ModeInsert =>
          /\ last.result.kind # "Pending"
          /\ vim.pending = NullInput

\* i entered Insert mode while g was pending.
C32_Witness ==
    /\ Transitioned
    /\ last.vim = with_pending(NewVim(ModeNormal), Key("g"))
    /\ last.input = Key("i")
    /\ vim = NewVim(ModeInsert)

\* C33: input_mode is Editing exactly when the state is that of a field being
\* edited, whatever keys and pastes came before; the states Help and ViewingResponse
\* are entered and left by keys handled in input mode Normal.
C33_EditingIffFieldState ==
    /\ input_mode = "Editing" <=> state \in EditingStates
    /\ input_mode \in {"Normal", "Editing"}
    /\ state \in EditingStates \cup {"Normal", "Help", "ViewingResponse"}
    /\ last.handled # "none" /\ last.host.state # state
         /\ {last.host.state, state} \cap {"Help", "ViewingResponse"} # {} =>
            /\ last.handled = "normal"
            /\ last.host.input_mode = "Normal"

\* Esc left the Help state, in input mode Normal before and after.
C33_Witness ==
    /\ last.handled = "normal"
    /\ last.input = Key("Esc")
    /\ last.host.state = "Help"
    /\ state = "Normal"
    /\ input_mode = "Normal"

\* The requests sent whose result App::update has not taken yet: those of the
\* running tasks and those whose result waits in the channel.
Outstanding == Len(in_flight) + Len(response_rx)

\* C34: at most one request is outstanding; loading is true exactly while one is;
\* a step that sends a request starts with loading false and a URL that is not
\* empty, it sends that request and sets loading; Enter while loading sends nothing.
C34_OneRequestOutstanding ==
    /\ [](Outstanding <= 1 /\ (loading <=> Outstanding = 1))
    /\ [][Len(in_flight') > Len(in_flight) =>
             /\ ~loading
             /\ current_request.url # <<>>
             /\ in_flight' = <<current_request>>
             /\ loading']_vars
    /\ [][loading /\ last' # last /\ last'.handled = "normal" /\ last'.input = Key("Enter") =>
             UNCHANGED netVars]_vars

\* Enter was pressed while the request for "ab" was outstanding, its result waiting
\* in the channel: it is still the only one.
C34_Witness ==
    /\ last.handled = "normal"
    /\ last.input = Key("Enter")
    /\ last.host.loading
    /\ loading
    /\ in_flight = <<>>
    /\ Len(response_rx) = 1
    /\ nkeys >= 2

\* C35: selected_response is None or an index below the number of stored responses,
\* whatever the order of Up, Down, Ctrl+c and the arrival of responses; Up and Down
\* on the History tab step by one and stay at the first and at the last response.
C35_SelectedResponseInRange ==
    /\ [](selected_response = None \/ selected_response[1] \in 0..(Len(responses) - 1))
    /\ [][\A code \in {"Up", "Down"} :
            /\ last' # last
            /\ last'.handled = "normal"
            /\ last'.input = Key(code)
            /\ active_tab = "History"
            /\ selected_response # None
            => LET i == selected_response[1]
                   n == Len(responses)
                   to == IF code = "Up" THEN (IF i = 0 THEN 0 ELSE i - 1)
                         ELSE (IF i = n - 1 THEN n - 1 ELSE i + 1)
               IN selected_response' = Some(to) /\ responses' = responses]_vars

\* Down on the History tab with the last of two responses selected: it stays.
C35_Witness ==
    /\ last.handled = "normal"
    /\ last.input = Key("Down")
    /\ active_tab = "History"
    /\ Len(responses) = 2
    /\ selected_response = Some(1)

\* C36: while a field is edited, a step changes current_request only if it is Enter
\* with the editor in Normal mode, which stores the text of the field in the field's
\* place of the request and closes the field, or a paste event while the URL is
\* edited; every other key, Esc in Normal mode included, leaves the request as it was.
C36_RequestChangesOnlyOnSave ==
    /\ [][input_mode = "Editing" /\ current_request' # current_request =>
             \/ /\ last'.handled = "saved"
                /\ last'.input = Key("Enter")
                /\ vim.mode = ModeNormal
                /\ state' = "Normal"
                /\ current_request' =
                      CASE state = "EditingBody" ->
                              [current_request EXCEPT
                                  !.body = Join(body_textarea.lines, <<"\n">>)]
                        [] state = "EditingHeaders" ->
                              [current_request EXCEPT
                                  !.headers = ParseKeyValues(headers_textarea.lines, EmptyMap)]
                        [] state = "EditingQueries" ->
                              [current_request EXCEPT
                                  !.queries = ParseKeyValues(queries_textarea.lines, EmptyMap)]
                        [] state = "EditingUrl" ->
                              SaveUrl(current_request,
                                      Trim(Join(url_textarea.lines, <<>>))).value
             \/ /\ last'.handled = "pasted"
                /\ state = "EditingUrl"]_vars
    /\ [](last.handled \in {"transition", "closed", "save failed", "paste failed",
                            "paste ignored", "panicked"} =>
             current_request = last.host.request)

\* Esc in Normal mode closed the body, whose text had been changed: the request
\* still has the body it had.
C36_Witness ==
    /\ last.handled = "closed"
    /\ last.host.state = "EditingBody"
    /\ state = "Normal"
    /\ Join(body_textarea.lines, <<"\n">>) # current_request.body
    /\ current_request = last.host.request

\* C37: Enter as the first key after opening the headers (the queries) leaves the
\* request's headers (queries) as they were.
C37_FormatParseRoundTrip ==
    /\ last.handled = "saved" /\ typed = <<Key("Enter")>> /\ last.host.state = "EditingHeaders"
          => current_request.headers = last.host.request.headers
    /\ last.handled = "saved" /\ typed = <<Key("Enter")>> /\ last.host.state = "EditingQueries"
          => current_request.queries = last.host.request.queries

\* The words of the text last pasted, after "curl ", and the number of its quotes.
PasteWords == SplitOn(Drop(last.text, 5), " ")
PasteQuotes == Cardinality({i \in 1..Len(last.text) : last.text[i] \in {"\"", "'"}})

\* A command of one of the kinds parse_curl refuses: an unclosed quote or, in a
\* command without quotes (whose tokens are its words), no URL, a method that is none,
\* a header without a colon, a flag as the last word.
RefusedCommand ==
    \/ PasteQuotes % 2 = 1
    \/ /\ PasteQuotes = 0
       /\ \/ \A i \in 1..Len(PasteWords) : ~StartsWith(PasteWords[i], <<"h", "t", "t", "p">>)
          \/ \E i \in 1..(Len(PasteWords) - 1) :
                /\ PasteWords[i] \in MethodFlags
                /\ ~MethodFromStr(PasteWords[i + 1]).ok
          \/ \E i \in 1..(Len(PasteWords) - 1) :
                /\ PasteWords[i] \in HeaderFlags
                /\ ":" \notin {PasteWords[i + 1][j] : j \in 1..Len(PasteWords[i + 1])}
          \/ PasteWords[Len(PasteWords)] \in MethodFlags \cup HeaderFlags \cup DataFlags

\* C38: a save of the URL field that fails ends run_app with the error and leaves
\* current_request, state and input_mode as they were; the text saved then starts
\* with "curl", and a curl command of a refused kind pasted into the empty field
\* does fail.
C38_FailedCurlSaveChangesNothing ==
    /\ last.handled \in {"save failed", "paste failed"} =>
          /\ exited = "error"
          /\ last.host.state = "EditingUrl"
          /\ StartsWith(Trim(Join(url_textarea.lines, <<>>)), <<"c", "u", "r", "l">>)
          /\ current_request = last.host.request
          /\ state = last.host.state
          /\ input_mode = last.host.input_mode
    /\ exited = "error" => last.handled \in {"save failed", "paste failed"}
    /\ /\ last.handled \in {"pasted", "paste failed"}
       /\ last.host.state = "EditingUrl"
       /\ url_textarea.lines = <<last.text>>
       /\ StartsWith(last.text, <<"c", "u", "r", "l", " ">>)
       /\ RefusedCommand
       => last.handled = "paste failed"

\* A header without a colon was pasted after a URL: nothing changed but run_app ended.
C38_Witness ==
    /\ last.handled = "paste failed"
    /\ last.text = CurlText(<<<<"h", "t", "t", "p">>, <<"-", "H", " ", "k">>>>)
    /\ exited = "error"
    /\ state = "EditingUrl"
    /\ input_mode = "Editing"
    /\ current_request = NewRequest

====
